---- MODULE Spec2Model ----
(***************************************************************************)
(* Model of the argosy asset loader core (src/src/loader.rs,               *)
(* src/src/handle.rs): the two sharded caches (by id, by path), the find   *)
(* and load tasks, the handles polled by callers and the build step.       *)
(*                                                                         *)
(* A critical section that takes one shard lock, reads or writes one entry *)
(* and releases the lock without taking any other lock in between is one   *)
(* action guarded by "the lock is free".  The two places where a second    *)
(* lock is taken while a first one is held (the path-to-id handoff of      *)
(* find_asset_task and the decoded cell / shard lock of Handle::build) are *)
(* split into one action per lock acquisition.                             *)
(***************************************************************************)
EXTENDS Integers, Sequences, FiniteSets, Bags, TLC

\* ------------------------------------------------------------------------
\* Bounds of the model.
NumCallers == 2
NumTypes == 1
MaxId == 1
NumPaths == 1
NumSources == 2
NumShards == 2
MaxVersion == 1
NumFields == 2

Callers == 1..NumCallers
Types == 1..NumTypes
Ids == 1..MaxId
Paths == 1..NumPaths
Sources == 1..NumSources
Shards == 0..(NumShards - 1)
Versions == 0..MaxVersion

\* The ids callers ask for and sources' find returns are Ids.  One more
\* asset is a composite: its decoded form has NumFields external fields,
\* field f being the asset FieldId(f).
FieldId(f) == MaxId + f
CompositeId == MaxId + NumFields + 1
AssetIds == 1..CompositeId
Fields == 1..NumFields

\* The asset types callers name are Types; one more type exists, so that
\* one id or one path can be asked for under two types.
AssetTypes == 1..(NumTypes + 1)

\* TypeKey { type_id, id } and PathKey { type_id, path }.
TypeKey == AssetTypes \X AssetIds
PathKey == AssetTypes \X Paths
RequestKeys == Types \X Ids
RequestPaths == Types \X Paths
IsComposite(k) == k = <<1, CompositeId>>

\* The polling surfaces a caller drives its handle with.
Modes == {"id", "loaded", "ready", "poll_build"}

\* hash_id_key / hash_path_key: a fixed function of (type, id) or
\* (type, path); the shard is the hash modulo the number of shards.
hash_id_key(k) == k[1] + k[2]
\* Mutant: the erased hash leaves the type out.
hash_id_key_erased_NoType(type_id, id) == id
hash_id_key_erased(type_id, id) == type_id + id
hash_path_key(pk) == pk[1] + 2 * pk[2]
AssetShardOf(k) == hash_id_key(k) % NumShards
PathShardOf(pk) == hash_path_key(pk) % NumShards

\* Values carried by entries, handles and results: a built asset (by the
\* caller whose builder built it), an error (by the source or the builder
\* that produced it), or nothing.
NoVal == [kind |-> "none", by |-> 0]
Asset(c) == [kind |-> "asset", by |-> c]
SourceError(s) == [kind |-> "source_error", by |-> s]
DecodeError == [kind |-> "decode_error", by |-> 0]
BuildError(c) == [kind |-> "build_error", by |-> c]

\* AssetState, with the entry's absence from the map as "Vacant".
VacantAsset == [st |-> "Vacant", wakers |-> <<>>, version |-> 0, source |-> 0, val |-> NoVal]
UnloadedAsset(ws) == [st |-> "Unloaded", wakers |-> ws, version |-> 0, source |-> 0, val |-> NoVal]
LoadedAssetState(v, s) == [st |-> "Loaded", wakers |-> <<>>, version |-> v, source |-> s, val |-> NoVal]
ReadyAsset(a, v, s) == [st |-> "Ready", wakers |-> <<>>, version |-> v, source |-> s, val |-> a]
MissingAsset == [st |-> "Missing", wakers |-> <<>>, version |-> 0, source |-> 0, val |-> NoVal]
ErrorAsset(e) == [st |-> "Error", wakers |-> <<>>, version |-> 0, source |-> 0, val |-> e]

\* PathState, with the entry's absence from the map as "Vacant".
VacantPath == [st |-> "Vacant", id |-> 0, asset_wakers |-> <<>>, id_wakers |-> <<>>]
UnloadedPath == [st |-> "Unloaded", id |-> 0, asset_wakers |-> <<>>, id_wakers |-> <<>>]
LoadedPath(i) == [st |-> "Loaded", id |-> i, asset_wakers |-> <<>>, id_wakers |-> <<>>]
MissingPath == [st |-> "Missing", id |-> 0, asset_wakers |-> <<>>, id_wakers |-> <<>>]

\* Handle { type_id, id, path, state }; id 0 and path 0 are None.  `shard`
\* is the shard a Searching, Loading or Loaded state carries, `val` the
\* asset or error a Ready or Error state carries.
NoHandle ==
    [mode |-> "id", type |-> 0, id |-> 0, path |-> 0, state |-> "None", shard |-> 0, val |-> NoVal]
Handle(m, t, i, p, s, sh, v) ==
    [mode |-> m, type |-> t, id |-> i, path |-> p, state |-> s, shard |-> sh, val |-> v]

\* What a surface returned to its caller.
NoResult == [kind |-> "none", val |-> NoVal, id |-> 0, path |-> 0]
OkResult(a) == [kind |-> "ok", val |-> a, id |-> 0, path |-> 0]
ErrResult(e) == [kind |-> "err", val |-> e, id |-> 0, path |-> 0]
NotFound(i, p) == [kind |-> "notfound", val |-> NoVal, id |-> i, path |-> p]
IdResult(i) == [kind |-> "id", val |-> NoVal, id |-> i, path |-> 0]
LoadedResult == [kind |-> "loaded", val |-> NoVal, id |-> 0, path |-> 0]

\* Lock holders.
Free == <<"free", 0>>
FindTask(pk) == <<"find", pk>>
Spawned(k) == <<"spawned", k>>
Builder(c) == <<"builder", c>>

VARIABLES
    asset_cache,    \* Loader::asset_cache: per shard, TypeKey -> AssetState
    path_cache,     \* Loader::path_cache: per shard, PathKey -> PathState
    asset_lock,     \* holder of each asset shard's mutex
    path_lock,      \* holder of each path shard's mutex
    decoded,        \* the decoded cell of each id-entry: content and spin lock
    load_task,      \* load_asset_task per TypeKey: position and locals
    find_task,      \* find_asset_task per PathKey: position and locals
    handle,         \* the handle of each caller
    cpc,            \* position of each caller
    opt,            \* Handle::build: the result of build_fn held by a caller
    result,         \* what the caller's surface returned
    nreg,           \* number of wakers each caller has registered
    woke,           \* bag of the wakers that were woken
    counters,       \* calls of Source::load, Source::find, decode, build; tasks started
    panicked,       \* unreachable!, panic! and debug_assert! sites that were hit
    builder,        \* LoaderBuilder::num_shards and the tables of the Loader built from it
    id_text,        \* an AssetId, its human-readable form and what parsing that gave
    idgen,          \* IdGen: its State, the call of new_id in progress, ids returned
    store,          \* Store::store_url: the stack of items and what importers were asked
    dylib           \* DylibImporter::import: the result buffer and the calls made

vars == <<asset_cache, path_cache, asset_lock, path_lock, decoded, load_task,
          find_task, handle, cpc, opt, result, nreg, woke, counters, panicked,
          builder, id_text, idgen, store, dylib>>

\* The loader proper, and what its operations never touch.
loader_vars == <<asset_cache, path_cache, asset_lock, path_lock, decoded, load_task,
                 find_task, handle, cpc, opt, result, nreg, woke, counters, panicked>>
outside == <<builder, id_text, idgen, store, dylib>>

\* A Loader built with s shards per table; no id under conversion.
BuiltLoader(n, s) == [num_shards |-> n, built |-> TRUE, shards |-> s, index |-> 0]
NoText == [stage |-> "none", id |-> <<>>, hex |-> <<>>, parsed |-> <<"none">>]
\* No generator, no store_url call and no importer call under way.
NoIdGen == [pc |-> "none"]
NoStore == [pc |-> "none"]
NoDylib == [pc |-> "none"]

NoLoadTask == [pc |-> "none", by |-> Free, src |-> 0, new_state |-> VacantAsset]
NoFindTask == [pc |-> "none", src |-> 0, id |-> 0, moving_wakers |-> <<>>, created |-> FALSE]
NoCell == [content |-> "Absent", lock |-> 0]

Init ==
    /\ asset_cache = [s \in Shards |-> [k \in TypeKey |-> VacantAsset]]
    /\ path_cache = [s \in Shards |-> [pk \in PathKey |-> VacantPath]]
    /\ asset_lock = [s \in Shards |-> Free]
    /\ path_lock = [s \in Shards |-> Free]
    /\ decoded = [k \in TypeKey |-> NoCell]
    /\ load_task = [k \in TypeKey |-> NoLoadTask]
    /\ find_task = [pk \in PathKey |-> NoFindTask]
    /\ handle = [c \in Callers |-> NoHandle]
    /\ cpc = [c \in Callers |-> "idle"]
    /\ opt = [c \in Callers |-> NoVal]
    /\ result = [c \in Callers |-> NoResult]
    /\ nreg = [c \in Callers |-> 0]
    /\ woke = EmptyBag
    /\ counters = [load |-> [s \in Sources |-> [k \in TypeKey |-> 0]],
                   find |-> [s \in Sources |-> [pk \in PathKey |-> 0]],
                   decode |-> [k \in TypeKey |-> 0],
                   build |-> [k \in TypeKey |-> 0],
                   load_tasks |-> [k \in TypeKey |-> 0],
                   find_tasks |-> [pk \in PathKey |-> 0]]
    /\ panicked = {}
    /\ idgen = NoIdGen /\ store = NoStore /\ dylib = NoDylib
    /\ builder = BuiltLoader(NumShards, NumShards)
    /\ id_text = NoText

\* ------------------------------------------------------------------------
\* Wakers.  A waker is one registration: the caller c, its n-th
\* registration, made on the list `list` of the entry `key` of table `tab`
\* while that entry was in state `st`.
Waker(c, n, tab, key, st, list) ==
    [c |-> c, n |-> n, tab |-> tab, key |-> key, st |-> st, list |-> list]

Range(ws) == {ws[i] : i \in DOMAIN ws}
SeqBag(ws) == [w \in Range(ws) |-> Cardinality({i \in DOMAIN ws : ws[i] = w})]

\* Mutant: dropping the list wakes nobody.
WakeOnDrop_drop_Silent(ws) == <<>>

\* WakeOnDrop::drop: every waker of the list is woken.
WakeOnDrop_drop(ws) == ws

\* The bag of woken wakers and the callers' positions after the list ws
\* was dropped: a woken task that was pending is scheduled to poll again.
WokeAfter(ws) == woke (+) SeqBag(WakeOnDrop_drop(ws))
PcAfterWake(ws) ==
    [c \in Callers |->
        IF cpc[c] = "wait" /\ \E w \in Range(WakeOnDrop_drop(ws)) : w.c = c
        THEN "run" ELSE cpc[c]]

\* ------------------------------------------------------------------------
\* load_asset_task.

\* Mutant: after a source's error the next source is tried, and the error
\* is reported only if no later source has the asset.
load_asset_TriesNextAfterError(lt, s, r, v) ==
    CASE r = "Some" -> [lt EXCEPT !.pc = "decode", !.new_state = LoadedAssetState(v, s)]
      [] r = "Err" /\ s < NumSources ->
            [lt EXCEPT !.src = s + 1, !.new_state = ErrorAsset(SourceError(s))]
      [] r = "Err" /\ s = NumSources ->
            [lt EXCEPT !.pc = "publish", !.new_state = ErrorAsset(SourceError(s))]
      [] OTHER -> IF s < NumSources THEN [lt EXCEPT !.src = s + 1]
                  ELSE IF lt.new_state.st = "Error" THEN [lt EXCEPT !.pc = "publish"]
                  ELSE [lt EXCEPT !.pc = "publish", !.new_state = MissingAsset]

\* Mutant: the loop goes on after a source had the asset; the last source
\* that has it wins.
load_asset_LastWins(lt, s, r, v) ==
    CASE r = "Err" -> [lt EXCEPT !.pc = "publish", !.new_state = ErrorAsset(SourceError(s))]
      [] r = "Some" /\ s < NumSources ->
            [lt EXCEPT !.src = s + 1, !.new_state = LoadedAssetState(v, s)]
      [] r = "Some" /\ s = NumSources ->
            [lt EXCEPT !.pc = "decode", !.new_state = LoadedAssetState(v, s)]
      [] OTHER -> IF s < NumSources THEN [lt EXCEPT !.src = s + 1]
                  ELSE IF lt.new_state.st = "Loaded" THEN [lt EXCEPT !.pc = "decode"]
                  ELSE [lt EXCEPT !.pc = "publish", !.new_state = MissingAsset]

\* load_asset: one iteration of the loop over the sources; r is what
\* source s answered for the id, v the version of its data.
load_asset(lt, s, r, v) ==
    CASE r = "Err" -> [lt EXCEPT !.pc = "publish", !.new_state = ErrorAsset(SourceError(s))]
      [] r = "Some" -> [lt EXCEPT !.pc = "decode", !.new_state = LoadedAssetState(v, s)]
      [] OTHER -> IF s = NumSources
                  THEN [lt EXCEPT !.pc = "publish", !.new_state = MissingAsset]
                  ELSE [lt EXCEPT !.src = s + 1]

LoadSource(k) ==
    /\ load_task[k].pc = "load"
    /\ LET s == load_task[k].src IN
        /\ counters' = [counters EXCEPT !.load[s][k] = @ + 1]
        /\ \E r \in {"None", "Some", "Err"}, v \in Versions :
            load_task' = [load_task EXCEPT ![k] = load_asset(@, s, r, v)]
    /\ UNCHANGED <<asset_cache, path_cache, asset_lock, path_lock, decoded, find_task,
                   handle, cpc, opt, result, nreg, woke, panicked>>
    /\ UNCHANGED outside

\* A::decode(data.bytes, loader).await and the new state built from it.
Decode(k) ==
    /\ load_task[k].pc = "decode"
    /\ ~IsComposite(k)
    /\ counters' = [counters EXCEPT !.decode[k] = @ + 1]
    /\ \E r \in {"Ok", "Err"} :
        IF r = "Ok"
        THEN /\ load_task' = [load_task EXCEPT ![k].pc = "publish"]
             /\ decoded' = [decoded EXCEPT ![k] = [content |-> "Some", lock |-> 0]]
        ELSE /\ load_task' = [load_task EXCEPT ![k].pc = "publish",
                                               ![k].new_state = ErrorAsset(DecodeError)]
             /\ UNCHANGED decoded
    /\ UNCHANGED <<asset_cache, path_cache, asset_lock, path_lock, find_task,
                   handle, cpc, opt, result, nreg, woke, panicked>>
    /\ UNCHANGED outside

\* Mutant: a Missing outcome is not stored, the entry stays as it was.
PublishedState_MissingNotStored(entry, new_state) ==
    IF new_state.st = "Missing" THEN entry ELSE new_state
\* Mutant: the wakers are drained but the entry keeps its state.
PublishedState_Unpublished(entry, new_state) == [entry EXCEPT !.wakers = <<>>]

\* The state written by `*entry = new_state`.
PublishedState(entry, new_state) == new_state

\* "Change state and notify wakers": under the shard lock the Unloaded
\* entry is replaced and the replaced state's wakers are dropped.
Publish(k) ==
    /\ load_task[k].pc = "publish"
    /\ asset_lock[AssetShardOf(k)] = Free
    /\ load_task' = [load_task EXCEPT ![k].pc = "done"]
    /\ IF asset_cache[AssetShardOf(k)][k].st = "Unloaded"
       THEN /\ asset_cache' = [asset_cache EXCEPT ![AssetShardOf(k)][k] =
                                    PublishedState(@, load_task[k].new_state)]
            /\ woke' = WokeAfter(asset_cache[AssetShardOf(k)][k].wakers)
            /\ cpc' = PcAfterWake(asset_cache[AssetShardOf(k)][k].wakers)
            /\ UNCHANGED panicked
       ELSE /\ panicked' = panicked \cup {"load_asset_task"}
            /\ UNCHANGED <<asset_cache, woke, cpc>>
    /\ UNCHANGED <<path_cache, asset_lock, path_lock, decoded, find_task,
                   handle, opt, result, nreg, counters>>
    /\ UNCHANGED outside

\* load_asset_task is run by the task load_with_id spawned or by the find
\* task that created the id-entry.
StartedLoadTask(by) == [pc |-> "load", by |-> by, src |-> 1, new_state |-> VacantAsset]
StartedFindTask == [pc |-> "find", src |-> 1, id |-> 0, moving_wakers |-> <<>>, created |-> FALSE]

\* ------------------------------------------------------------------------
\* find_asset_task.

\* find_asset: one iteration of the loop over the sources; r is the id
\* source s found for the path, 0 for None.
find_asset(ft, s, r) ==
    IF r # 0 THEN [ft EXCEPT !.pc = "found", !.id = r]
    ELSE IF s = NumSources THEN [ft EXCEPT !.pc = "notfound"]
    ELSE [ft EXCEPT !.src = s + 1]

FindSource(pk) ==
    /\ find_task[pk].pc = "find"
    /\ LET s == find_task[pk].src IN
        /\ counters' = [counters EXCEPT !.find[s][pk] = @ + 1]
        /\ \E r \in {0} \cup Ids :
            find_task' = [find_task EXCEPT ![pk] = find_asset(@, s, r)]
    /\ UNCHANGED <<asset_cache, path_cache, asset_lock, path_lock, decoded, load_task,
                   handle, cpc, opt, result, nreg, woke, panicked>>
    /\ UNCHANGED outside

\* opt = None: the path entry becomes Missing; both waker lists of the
\* replaced state are dropped.
FindMissing(pk) ==
    /\ find_task[pk].pc = "notfound"
    /\ path_lock[PathShardOf(pk)] = Free
    /\ find_task' = [find_task EXCEPT ![pk].pc = "done"]
    /\ IF path_cache[PathShardOf(pk)][pk].st = "Unloaded"
       THEN LET ws == path_cache[PathShardOf(pk)][pk].asset_wakers
                        \o path_cache[PathShardOf(pk)][pk].id_wakers IN
            /\ path_cache' = [path_cache EXCEPT ![PathShardOf(pk)][pk] = MissingPath]
            /\ woke' = WokeAfter(ws)
            /\ cpc' = PcAfterWake(ws)
            /\ UNCHANGED panicked
       ELSE /\ panicked' = panicked \cup {"find_asset_task"}
            /\ UNCHANGED <<path_cache, woke, cpc>>
    /\ UNCHANGED <<asset_cache, asset_lock, path_lock, decoded, load_task,
                   handle, opt, result, nreg, counters>>
    /\ UNCHANGED outside

\* Mutant: the find task inserts its Unloaded entry over an occupied one.
HandoffEntry_Overwrites(e, moving) == UnloadedAsset(e.wakers \o moving)
\* Mutant: wakers appended to an Unloaded id-entry are copied, not moved.
HandoffMoving_Copies(e, moving) == IF e.st = "Vacant" THEN <<>> ELSE moving

\* The path-to-id handoff, `Some(id)`.  What the id-entry e becomes, what
\* stays in the local moving_wakers, and whether the task goes on to load.
HandoffEntry(e, moving) ==
    IF e.st = "Vacant" THEN UnloadedAsset(moving)
    ELSE IF e.st = "Unloaded" THEN [e EXCEPT !.wakers = @ \o moving]
    ELSE e
HandoffMoving(e, moving) == IF e.st \in {"Vacant", "Unloaded"} THEN <<>> ELSE moving
\* Mutant: the find task goes on to load_asset_task also when the
\* id-entry was there already.
HandoffCreated_Always(e) == TRUE

HandoffCreated(e) == e.st = "Vacant"

\* Mutant: the path shard guard is dropped as soon as the path entry is
\* Loaded { id }, before the id-entry is looked at.
PathGuardAfterLoaded_Dropped(holder) == Free

\* The holder of the path shard lock once the path entry was set to
\* Loaded { id }: the guard is still alive.
PathGuardAfterLoaded(holder) == holder

\* The path shard is locked, asset_wakers are taken into moving_wakers and
\* the path entry becomes Loaded { id }; the replaced state's id_wakers are
\* dropped.  The guard stays alive to the end of the block.
FindLockPath(pk) ==
    /\ find_task[pk].pc = "found"
    /\ path_lock[PathShardOf(pk)] = Free
    /\ IF path_cache[PathShardOf(pk)][pk].st = "Unloaded"
       THEN /\ path_lock' = [path_lock EXCEPT ![PathShardOf(pk)] =
                                    PathGuardAfterLoaded(FindTask(pk))]
            /\ find_task' = [find_task EXCEPT
                    ![pk].pc = "locked_path",
                    ![pk].moving_wakers = path_cache[PathShardOf(pk)][pk].asset_wakers]
            /\ path_cache' = [path_cache EXCEPT ![PathShardOf(pk)][pk] =
                                    LoadedPath(find_task[pk].id)]
            /\ woke' = WokeAfter(path_cache[PathShardOf(pk)][pk].id_wakers)
            /\ cpc' = PcAfterWake(path_cache[PathShardOf(pk)][pk].id_wakers)
            /\ UNCHANGED panicked
       ELSE /\ panicked' = panicked \cup {"find_asset_task"}
            /\ find_task' = [find_task EXCEPT ![pk].pc = "done"]
            /\ UNCHANGED <<path_lock, path_cache, woke, cpc>>
    /\ UNCHANGED <<asset_cache, asset_lock, decoded, load_task,
                   handle, opt, result, nreg, counters>>
    /\ UNCHANGED outside

\* Mutant: the path shard guard is dropped before the id shard is locked.
ReleasesPathLockFirst_Yes == TRUE

\* Whether the find task gives up the path shard lock before it locks the
\* id shard: it does not, the second guard shadows the first.
ReleasesPathLockFirst == FALSE

\* "Check ID entry": the id shard is locked and the wakers are handed off.
FindLockId(pk) ==
    /\ find_task[pk].pc = "locked_path"
    /\ LET k == <<pk[1], find_task[pk].id>>
           e == asset_cache[AssetShardOf(k)][k]
           moving == find_task[pk].moving_wakers
       IN
        /\ asset_lock[AssetShardOf(k)] = Free
        /\ asset_lock' = [asset_lock EXCEPT ![AssetShardOf(k)] = FindTask(pk)]
        /\ path_lock' = IF ReleasesPathLockFirst
                        THEN [path_lock EXCEPT ![PathShardOf(pk)] = Free]
                        ELSE path_lock
        /\ asset_cache' = [asset_cache EXCEPT ![AssetShardOf(k)][k] = HandoffEntry(e, moving)]
        /\ find_task' = [find_task EXCEPT ![pk].pc = "locked_both",
                                          ![pk].moving_wakers = HandoffMoving(e, moving),
                                          ![pk].created = HandoffCreated(e)]
    /\ UNCHANGED <<path_cache, decoded, load_task, handle, cpc, opt, result,
                   nreg, woke, counters, panicked>>
    /\ UNCHANGED outside

\* Mutant: the guards outlive the block.
GuardAtBlockEnd_Kept(holder) == holder

\* The holder of a shard lock once the block that took it ends: both
\* guards are locals of the block, so the locks are free before
\* load_asset_task is awaited.
GuardAtBlockEnd(holder) == Free

\* End of the block (or the early return): the guards and then
\* moving_wakers are dropped; the task proceeds to load_asset_task only when
\* it created the id-entry.
FindUnlock(pk) ==
    /\ find_task[pk].pc = "locked_both"
    /\ LET k == <<pk[1], find_task[pk].id>>
           moving == find_task[pk].moving_wakers
       IN
        /\ asset_lock' = [asset_lock EXCEPT ![AssetShardOf(k)] = GuardAtBlockEnd(FindTask(pk))]
        /\ path_lock' = [path_lock EXCEPT ![PathShardOf(pk)] = GuardAtBlockEnd(FindTask(pk))]
        /\ woke' = WokeAfter(moving)
        /\ cpc' = PcAfterWake(moving)
        /\ find_task' = [find_task EXCEPT ![pk].pc = "done", ![pk].moving_wakers = <<>>]
        /\ IF find_task[pk].created
           THEN /\ load_task' = [load_task EXCEPT ![k] = StartedLoadTask(FindTask(pk))]
                /\ counters' = [counters EXCEPT !.load_tasks[k] = @ + 1]
           ELSE UNCHANGED <<load_task, counters>>
    /\ UNCHANGED <<asset_cache, path_cache, decoded, handle, opt, result, nreg, panicked>>
    /\ UNCHANGED outside

\* ------------------------------------------------------------------------
\* Loader::load_with_id and Loader::load.

\* Mutants: an Unloaded entry is taken for a vacant one.
OccupiedAsset_UnloadedIsVacant(e) == e.st \notin {"Vacant", "Unloaded"}
OccupiedPath_UnloadedIsVacant(e) == e.st \notin {"Vacant", "Unloaded"}

\* RawEntryMut::Occupied / Vacant.
OccupiedAsset(e) == e.st # "Vacant"
OccupiedPath(e) == e.st # "Vacant"

\* Mutant: an Error entry yields a Missing handle.
StateOfEntry_ErrorAsMissing(e) ==
    CASE e.st = "Unloaded" -> "Loading"
      [] e.st = "Error" -> "Missing"
      [] OTHER -> e.st

\* Mutant: an entry that is still being loaded yields a Loaded handle.
StateOfEntry_UnloadedAsLoaded(e) ==
    CASE e.st = "Unloaded" -> "Loaded"
      [] OTHER -> e.st

\* The handle state load_with_id returns for an occupied entry.
StateOfEntry(e) ==
    CASE e.st = "Unloaded" -> "Loading"
      [] e.st = "Loaded" -> "Loaded"
      [] OTHER -> e.st

\* load_with_id::<A>(id) by caller c, who will drive the handle by mode m.
load_with_id(c, m, k) ==
    /\ asset_lock[AssetShardOf(k)] = Free
    /\ LET sh == AssetShardOf(k)
           e == asset_cache[sh][k]
       IN
        IF OccupiedAsset(e)
        THEN /\ handle' = [handle EXCEPT ![c] =
                                Handle(m, k[1], k[2], 0, StateOfEntry(e), sh, e.val)]
             /\ UNCHANGED <<asset_cache, load_task, counters>>
        ELSE /\ asset_cache' = [asset_cache EXCEPT ![sh][k] = UnloadedAsset(<<>>)]
             /\ handle' = [handle EXCEPT ![c] = Handle(m, k[1], k[2], 0, "Loading", sh, NoVal)]
             /\ load_task' = [load_task EXCEPT ![k] = StartedLoadTask(Spawned(k))]
             /\ counters' = [counters EXCEPT !.load_tasks[k] = @ + 1]
    /\ cpc' = [cpc EXCEPT ![c] = "run"]
    /\ UNCHANGED <<path_cache, asset_lock, path_lock, decoded, find_task,
                   opt, result, nreg, woke, panicked>>
    /\ UNCHANGED outside

\* Callers are interchangeable: they make their load calls in the order of
\* their numbers.
MayCall(c) == cpc[c] = "idle" /\ \A d \in Callers : d < c => cpc[d] # "idle"

\* load(Key::Id(id)).
LoadId(c, m, k) ==
    /\ MayCall(c)
    /\ load_with_id(c, m, k)

\* load(Key::Path(path)): the path shard is locked; only a vacant entry
\* spawns the find task.
LoadPath(c, m, pk) ==
    /\ MayCall(c)
    /\ path_lock[PathShardOf(pk)] = Free
    /\ LET sh == PathShardOf(pk)
           e == path_cache[sh][pk]
       IN
        IF OccupiedPath(e)
        THEN /\ CASE e.st = "Unloaded" ->
                      /\ handle' = [handle EXCEPT ![c] =
                                        Handle(m, pk[1], 0, pk[2], "Searching", sh, NoVal)]
                      /\ cpc' = [cpc EXCEPT ![c] = "run"]
                  [] e.st = "Loaded" ->
                      /\ handle' = [handle EXCEPT ![c] =
                                        Handle(m, pk[1], e.id, 0, "None", 0, NoVal)]
                      /\ cpc' = [cpc EXCEPT ![c] = "load_with_id"]
                  [] OTHER ->
                      /\ handle' = [handle EXCEPT ![c] =
                                        Handle(m, pk[1], 0, pk[2], "Missing", 0, NoVal)]
                      /\ cpc' = [cpc EXCEPT ![c] = "run"]
             /\ UNCHANGED <<path_cache, find_task, counters>>
        ELSE /\ path_cache' = [path_cache EXCEPT ![sh][pk] = UnloadedPath]
             /\ handle' = [handle EXCEPT ![c] =
                                Handle(m, pk[1], 0, pk[2], "Searching", sh, NoVal)]
             /\ cpc' = [cpc EXCEPT ![c] = "run"]
             /\ find_task' = [find_task EXCEPT ![pk] = StartedFindTask]
             /\ counters' = [counters EXCEPT !.find_tasks[pk] = @ + 1]
    /\ UNCHANGED <<asset_cache, asset_lock, path_lock, decoded, load_task,
                   opt, result, nreg, woke, panicked>>
    /\ UNCHANGED outside

\* PathState::Loaded { id }: the path shard lock is dropped and the call
\* continues as load_with_id(id).
LoadPathThenId(c) ==
    /\ cpc[c] = "load_with_id"
    /\ load_with_id(c, handle[c].mode, <<handle[c].type, handle[c].id>>)

\* ------------------------------------------------------------------------
\* Handle::poll and the surfaces that call it.

\* Mutant: the ready surfaces poll for Load.
PollFor_ReadyAsLoad(m) == IF m = "id" THEN "Id" ELSE "Load"

\* The PollFor and the waker each surface passes to Handle::poll.
PollFor(m) == CASE m = "id" -> "Id" [] m = "ready" -> "Ready" [] OTHER -> "Load"
HasWaker(m) == m # "poll_build"

\* Handle::id.
Handle_id(h) ==
    IF h.id # 0 THEN IdResult(h.id)
    ELSE IF h.state = "Missing" THEN NotFound(0, h.path)
    ELSE ErrResult(h.val)

\* Mutant: the NotFound error of the loaded surface carries the id only.
SurfaceResult_NotFoundWithoutPath(h) ==
    CASE h.mode = "id" -> Handle_id(h)
      [] h.mode = "loaded" ->
            IF h.state = "Error" THEN ErrResult(h.val)
            ELSE IF h.state = "Missing" THEN NotFound(h.id, 0)
            ELSE LoadedResult
      [] OTHER -> NoResult

\* What the surface does once Handle::poll returned true on handle h:
\* the result it returns, if it returns one at once.
SurfaceResult(h) ==
    CASE h.mode = "id" -> Handle_id(h)
      [] h.mode = "loaded" ->
            IF h.state = "Error" THEN ErrResult(h.val)
            ELSE IF h.state = "Missing" THEN NotFound(h.id, h.path)
            ELSE LoadedResult
      [] OTHER -> NoResult
\* ... and the caller's next position.
SurfacePc(h) ==
    CASE h.mode = "id" -> "done"
      [] h.mode = "loaded" -> IF h.state \in {"Error", "Missing"} THEN "done" ELSE "loaded"
      [] h.mode = "ready" -> "get"
      [] OTHER -> "build"

\* Handle::poll returned true, leaving the handle as h.
PollTrue(c, h) ==
    /\ handle' = [handle EXCEPT ![c] = h]
    /\ result' = [result EXCEPT ![c] = SurfaceResult(h)]
    /\ cpc' = [cpc EXCEPT ![c] = SurfacePc(h)]

\* Handle::poll returned false; the waker, if one was passed, is now on a
\* list and the task is pending.
PollFalse(c, h) ==
    /\ handle' = [handle EXCEPT ![c] = h]
    /\ cpc' = [cpc EXCEPT ![c] = IF HasWaker(h.mode) THEN "wait" ELSE "run"]
    /\ nreg' = [nreg EXCEPT ![c] = IF HasWaker(h.mode) THEN @ + 1 ELSE @]
    /\ UNCHANGED result

\* AssetLookup::poll: the id is already known.
PollKnownId(c) ==
    /\ cpc[c] = "run"
    /\ handle[c].mode = "id"
    /\ handle[c].id # 0
    /\ result' = [result EXCEPT ![c] = IdResult(handle[c].id)]
    /\ cpc' = [cpc EXCEPT ![c] = "done"]
    /\ UNCHANGED <<asset_cache, path_cache, asset_lock, path_lock, decoded, load_task,
                   find_task, handle, opt, nreg, woke, counters, panicked>>
    /\ UNCHANGED outside

\* Mutant: every waker of a searching handle goes to asset_wakers.
PathWakerList_OneList(pf) == "asset_wakers"

\* The list of a path entry a waker goes to.
PathWakerList(pf) == IF pf = "Ready" THEN "asset_wakers" ELSE "id_wakers"

\* Handle::poll, State::Searching: the path entry is read under the path
\* shard lock.
PollSearching(c) ==
    /\ cpc[c] = "run"
    /\ handle[c].state = "Searching"
    /\ LET h == handle[c]
           pk == <<h.type, h.path>>
           e == path_cache[h.shard][pk]
           loading == [h EXCEPT !.id = e.id, !.state = "Loading",
                                !.shard = hash_id_key_erased(h.type, e.id) % NumShards]
           pf == PollFor(h.mode)
           w == Waker(c, nreg[c] + 1, "path", pk, "Unloaded", PathWakerList(pf))
       IN
        /\ path_lock[h.shard] = Free
        /\ CASE e.st = "Vacant" ->
                  /\ panicked' = panicked \cup {"poll_path_vacant"}
                  /\ cpc' = [cpc EXCEPT ![c] = "panicked"]
                  /\ UNCHANGED <<path_cache, handle, result, nreg>>
             [] e.st = "Unloaded" ->
                  /\ path_cache' =
                        IF ~HasWaker(h.mode) THEN path_cache
                        ELSE IF PathWakerList(pf) = "asset_wakers"
                        THEN [path_cache EXCEPT ![h.shard][pk].asset_wakers = Append(@, w)]
                        ELSE [path_cache EXCEPT ![h.shard][pk].id_wakers = Append(@, w)]
                  /\ PollFalse(c, h)
                  /\ UNCHANGED panicked
             [] e.st = "Loaded" ->
                  /\ IF pf = "Id"
                     THEN PollTrue(c, loading)
                     ELSE /\ handle' = [handle EXCEPT ![c] = loading]
                          /\ UNCHANGED <<result, cpc>>
                  /\ UNCHANGED <<path_cache, nreg, panicked>>
             [] OTHER ->
                  /\ PollTrue(c, [h EXCEPT !.state = "Missing"])
                  /\ UNCHANGED <<path_cache, nreg, panicked>>
    /\ UNCHANGED <<asset_cache, asset_lock, path_lock, decoded, load_task,
                   find_task, opt, woke, counters>>
    /\ UNCHANGED outside

\* Handle::poll, State::Loading or State::Loaded: the id-entry is read
\* under the id shard lock, unless the handle is Loaded and the caller does
\* not wait for Ready.
PollAsset(c) ==
    /\ cpc[c] = "run"
    /\ handle[c].state \in {"Loading", "Loaded"}
    /\ handle[c].mode # "id"
    /\ LET h == handle[c]
           k == <<h.type, h.id>>
           e == asset_cache[h.shard][k]
           pf == PollFor(h.mode)
           w == Waker(c, nreg[c] + 1, "id", k, e.st, "wakers")
           pushed == IF HasWaker(h.mode)
                     THEN [asset_cache EXCEPT ![h.shard][k].wakers = Append(@, w)]
                     ELSE asset_cache
       IN
        IF h.state = "Loaded" /\ pf # "Ready"
        THEN /\ PollTrue(c, h)
             /\ UNCHANGED <<asset_cache, nreg, panicked>>
        ELSE
        /\ asset_lock[h.shard] = Free
        /\ CASE e.st = "Vacant" ->
                  /\ panicked' = panicked \cup {"poll_asset_vacant"}
                  /\ cpc' = [cpc EXCEPT ![c] = "panicked"]
                  /\ UNCHANGED <<asset_cache, handle, result, nreg>>
             [] e.st = "Unloaded" ->
                  /\ asset_cache' = pushed
                  /\ PollFalse(c, h)
                  /\ UNCHANGED panicked
             [] e.st = "Loaded" /\ pf = "Ready" ->
                  /\ asset_cache' = pushed
                  /\ PollFalse(c, [h EXCEPT !.state = "Loaded"])
                  /\ UNCHANGED panicked
             [] e.st = "Loaded" /\ pf # "Ready" ->
                  /\ PollTrue(c, [h EXCEPT !.state = "Loaded"])
                  /\ UNCHANGED <<asset_cache, nreg, panicked>>
             [] e.st = "Ready" ->
                  /\ PollTrue(c, [h EXCEPT !.state = "Loaded"])
                  /\ UNCHANGED <<asset_cache, nreg, panicked>>
             [] e.st = "Missing" ->
                  /\ PollTrue(c, [h EXCEPT !.state = "Missing"])
                  /\ UNCHANGED <<asset_cache, nreg, panicked>>
             [] OTHER ->
                  /\ PollTrue(c, [h EXCEPT !.state = "Error", !.val = e.val])
                  /\ UNCHANGED <<asset_cache, nreg, panicked>>
    /\ UNCHANGED <<path_cache, asset_lock, path_lock, decoded, load_task,
                   find_task, opt, woke, counters>>
    /\ UNCHANGED outside

\* debug_assert!(self.id.is_some()): it passes when the id is known; when it
\* is not, a build with debug assertions panics and a build without them
\* goes on.
DebugAssertIdOutcomes(h) == IF h.id # 0 THEN {"pass"} ELSE {"pass", "panic"}

\* Handle::poll, State::Ready, State::Error or State::Missing: no lock is
\* taken; debug_assert!(self.id.is_some()) is evaluated on the way.
PollTerminal(c) ==
    /\ cpc[c] = "run"
    /\ handle[c].state \in {"Ready", "Error", "Missing"}
    /\ ~(handle[c].mode = "id" /\ handle[c].id # 0)
    /\ \E o \in DebugAssertIdOutcomes(handle[c]) :
        IF o = "panic"
        THEN /\ panicked' = panicked \cup {"debug_assert_id"}
             /\ cpc' = [cpc EXCEPT ![c] = "panicked"]
             /\ UNCHANGED <<handle, result>>
        ELSE /\ PollTrue(c, handle[c])
             /\ UNCHANGED panicked
    /\ UNCHANGED <<asset_cache, path_cache, asset_lock, path_lock, decoded, load_task,
                   find_task, opt, nreg, woke, counters>>
    /\ UNCHANGED outside

\* Handle::get, called by the ready surfaces once poll(Ready) returned true.
Get(c) ==
    /\ cpc[c] = "get"
    /\ LET h == handle[c]
           k == <<h.type, h.id>>
       IN
        CASE h.state = "Loaded" ->
              /\ asset_lock[h.shard] = Free
              /\ CASE asset_cache[h.shard][k].st = "Ready" ->
                        /\ result' = [result EXCEPT ![c] = OkResult(asset_cache[h.shard][k].val)]
                        /\ cpc' = [cpc EXCEPT ![c] = "done"]
                        /\ UNCHANGED <<handle, panicked>>
                   [] asset_cache[h.shard][k].st = "Missing" ->
                        /\ result' = [result EXCEPT ![c] = NotFound(h.id, h.path)]
                        /\ handle' = [handle EXCEPT ![c].state = "Missing"]
                        /\ cpc' = [cpc EXCEPT ![c] = "done"]
                        /\ UNCHANGED panicked
                   [] asset_cache[h.shard][k].st = "Error" ->
                        /\ result' = [result EXCEPT ![c] = ErrResult(asset_cache[h.shard][k].val)]
                        /\ handle' = [handle EXCEPT ![c].state = "Error", ![c].val = asset_cache[h.shard][k].val]
                        /\ cpc' = [cpc EXCEPT ![c] = "done"]
                        /\ UNCHANGED panicked
                   [] OTHER ->
                        /\ panicked' = panicked \cup {"get_unreachable"}
                        /\ cpc' = [cpc EXCEPT ![c] = "panicked"]
                        /\ UNCHANGED <<handle, result>>
          [] h.state = "Ready" ->
              /\ result' = [result EXCEPT ![c] = OkResult(h.val)]
              /\ cpc' = [cpc EXCEPT ![c] = "done"]
              /\ UNCHANGED <<handle, panicked>>
          [] h.state = "Missing" ->
              /\ result' = [result EXCEPT ![c] = NotFound(h.id, h.path)]
              /\ cpc' = [cpc EXCEPT ![c] = "done"]
              /\ UNCHANGED <<handle, panicked>>
          [] h.state = "Error" ->
              /\ result' = [result EXCEPT ![c] = ErrResult(h.val)]
              /\ cpc' = [cpc EXCEPT ![c] = "done"]
              /\ UNCHANGED <<handle, panicked>>
          [] OTHER ->
              /\ panicked' = panicked \cup {"get_unreachable"}
              /\ cpc' = [cpc EXCEPT ![c] = "panicked"]
              /\ UNCHANGED <<handle, result>>
    /\ UNCHANGED <<asset_cache, path_cache, asset_lock, path_lock, decoded, load_task,
                   find_task, opt, nreg, woke, counters>>
    /\ UNCHANGED outside

\* The surfaces that keep the outcome they returned in their own `result`
\* field (poll_ready, AssetFuture, poll_build) and return it again without
\* calling Handle::poll; the others (poll_id, AssetLookup, poll_loaded,
\* AssetHandle) call Handle::poll again.
CachesResult(m) == m \in {"ready", "poll_build"}

\* The shard locks a poll of a handle in state Ready, Error or Missing takes.
TerminalPollLocks(h) == {}

\* A polling method is called again on a handle that has returned a built
\* value, NotFound or an error.
Repoll(c) ==
    /\ cpc[c] = "done"
    /\ result[c].kind \in {"ok", "err", "notfound"}
    /\ CachesResult(handle[c].mode) \/ handle[c].state \in {"Error", "Missing"}
    /\ IF CachesResult(handle[c].mode)
       THEN /\ cpc' = [cpc EXCEPT ![c] = "repolled"]
            /\ UNCHANGED <<result, panicked>>
       ELSE /\ \A s \in TerminalPollLocks(handle[c]) :
                    asset_lock[s] = Free /\ path_lock[s] = Free
            /\ \E o \in DebugAssertIdOutcomes(handle[c]) :
                IF o = "panic"
                THEN /\ panicked' = panicked \cup {"debug_assert_id"}
                     /\ cpc' = [cpc EXCEPT ![c] = "panicked"]
                     /\ UNCHANGED result
                ELSE /\ result' = [result EXCEPT ![c] = SurfaceResult(handle[c])]
                     /\ cpc' = [cpc EXCEPT ![c] = "repolled"]
                     /\ UNCHANGED panicked
    /\ UNCHANGED <<asset_cache, path_cache, asset_lock, path_lock, decoded, load_task,
                   find_task, handle, opt, nreg, woke, counters>>
    /\ UNCHANGED outside

\* ------------------------------------------------------------------------
\* Handle::build, called by AssetHandle::poll_build once poll(Load) returned
\* true, by LoadedAsset::build, and by the driver surfaces.

\* Mutant: the shard guard lives on while the decoded cell is locked and
\* build_fn runs.
ShardGuardAtBuild_Kept(holder) == holder

\* The holder of the id shard lock once the Loaded arm has cloned the
\* decoded cell: `drop(locked_shard)` comes before `decode.lock()`.
ShardGuardAtBuild(holder) == Free

\* Handle::build up to the point where the decoded cell is cloned and the
\* shard lock dropped.
Build(c) ==
    /\ cpc[c] \in {"build", "loaded"}
    /\ LET h == handle[c]
           k == <<h.type, h.id>>
       IN
        /\ asset_lock' =
                IF h.state = "Loaded" /\ asset_cache[h.shard][k].st = "Loaded"
                THEN [asset_lock EXCEPT ![h.shard] = ShardGuardAtBuild(Builder(c))]
                ELSE asset_lock
        /\ CASE h.state = "Loaded" ->
                 /\ asset_lock[h.shard] = Free
                 /\ CASE asset_cache[h.shard][k].st = "Ready" ->
                           /\ result' = [result EXCEPT ![c] = OkResult(asset_cache[h.shard][k].val)]
                           /\ cpc' = [cpc EXCEPT ![c] = "done"]
                           /\ UNCHANGED <<handle, panicked>>
                      [] asset_cache[h.shard][k].st = "Loaded" ->
                           /\ cpc' = [cpc EXCEPT ![c] = "build_cell"]
                           /\ UNCHANGED <<handle, result, panicked>>
                      [] asset_cache[h.shard][k].st = "Missing" ->
                           /\ result' = [result EXCEPT ![c] = NotFound(h.id, h.path)]
                           /\ handle' = [handle EXCEPT ![c].state = "Missing"]
                           /\ cpc' = [cpc EXCEPT ![c] = "done"]
                           /\ UNCHANGED panicked
                      [] asset_cache[h.shard][k].st = "Error" ->
                           /\ result' = [result EXCEPT ![c] = ErrResult(asset_cache[h.shard][k].val)]
                           /\ handle' = [handle EXCEPT ![c].state = "Error", ![c].val = asset_cache[h.shard][k].val]
                           /\ cpc' = [cpc EXCEPT ![c] = "done"]
                           /\ UNCHANGED panicked
                      [] OTHER ->
                           /\ panicked' = panicked \cup {"build_unreachable"}
                           /\ cpc' = [cpc EXCEPT ![c] = "panicked"]
                           /\ UNCHANGED <<handle, result>>
             [] h.state = "Ready" ->
                 /\ result' = [result EXCEPT ![c] = OkResult(h.val)]
                 /\ cpc' = [cpc EXCEPT ![c] = "done"]
                 /\ UNCHANGED <<handle, panicked>>
             [] h.state = "Missing" ->
                 /\ result' = [result EXCEPT ![c] = NotFound(h.id, h.path)]
                 /\ cpc' = [cpc EXCEPT ![c] = "done"]
                 /\ UNCHANGED <<handle, panicked>>
             [] h.state = "Error" ->
                 /\ result' = [result EXCEPT ![c] = ErrResult(h.val)]
                 /\ cpc' = [cpc EXCEPT ![c] = "done"]
                 /\ UNCHANGED <<handle, panicked>>
             [] OTHER ->
                 /\ panicked' = panicked \cup {"build_unreachable"}
                 /\ cpc' = [cpc EXCEPT ![c] = "panicked"]
                 /\ UNCHANGED <<handle, result>>
    /\ UNCHANGED <<asset_cache, path_cache, path_lock, decoded, load_task,
                      find_task, opt, nreg, woke, counters>>
    /\ UNCHANGED outside

\* Mutant: the cell guard is dropped before the shard is locked again.
HeldCellLock_DroppedEarly(c) == 0

\* The holder of the decoded cell's spin lock between `decode.lock()` and
\* `drop(lock)`, which comes after the second `shard.lock()`.
HeldCellLock(c) == c

\* Mutant: the decoded value is read but left in the cell.
take_Leaves(content) == content

\* Option::take on the decoded cell: what the cell holds afterwards.
take(content) == "None"

\* `decode.lock()` and build_fn: the decoded value is taken and, if there
\* was one, A::build runs on it with the caller's builder.
BuildCell(c) ==
    /\ cpc[c] = "build_cell"
    /\ LET k == <<handle[c].type, handle[c].id>> IN
        /\ decoded[k].lock = 0
        /\ IF decoded[k].content = "Some"
           THEN /\ decoded' = [decoded EXCEPT ![k] = [content |-> take(@.content), lock |-> HeldCellLock(c)]]
                /\ counters' = [counters EXCEPT !.build[k] = @ + 1]
                /\ \E r \in {"Ok", "Err"} :
                    opt' = [opt EXCEPT ![c] = IF r = "Ok" THEN Asset(c) ELSE BuildError(c)]
           ELSE /\ decoded' = [decoded EXCEPT ![k].lock = HeldCellLock(c)]
                /\ opt' = [opt EXCEPT ![c] = NoVal]
                /\ UNCHANGED counters
    /\ cpc' = [cpc EXCEPT ![c] = "build_publish"]
    /\ UNCHANGED <<asset_cache, path_cache, asset_lock, path_lock, load_task,
                   find_task, handle, result, nreg, woke, panicked>>
    /\ UNCHANGED outside

\* Mutant: a failed build returns its error but the entry stays Loaded.
BuiltState_ErrorNotStored(e, o) ==
    IF o.kind = "asset" THEN ReadyAsset(o, e.version, e.source) ELSE e

\* Mutant: the Ready state does not take over version and source.
BuiltState_FreshStamp(e, o) ==
    IF o.kind = "asset" THEN ReadyAsset(o, 0, 0) ELSE ErrorAsset(o)

\* The entry written by the builder that holds Some(result), for an entry
\* e that is still Loaded.
BuiltState(e, o) ==
    IF o.kind = "asset" THEN ReadyAsset(o, e.version, e.source) ELSE ErrorAsset(o)

\* The shard lock is taken again, the cell lock dropped, and the entry is
\* read once more: only a Loaded entry is replaced.
BuildPublish(c) ==
    /\ cpc[c] = "build_publish"
    /\ LET h == handle[c]
           k == <<h.type, h.id>>
           e == asset_cache[h.shard][k]
           o == opt[c]
       IN
        /\ asset_lock[h.shard] = Free
        /\ decoded' = [decoded EXCEPT ![k].lock = 0]
        /\ opt' = [opt EXCEPT ![c] = NoVal]
        /\ CASE e.st = "Error" ->
                  /\ result' = [result EXCEPT ![c] = ErrResult(e.val)]
                  /\ cpc' = [cpc EXCEPT ![c] = "done"]
                  /\ UNCHANGED <<asset_cache, woke, panicked>>
             [] e.st = "Ready" ->
                  /\ result' = [result EXCEPT ![c] = OkResult(e.val)]
                  /\ cpc' = [cpc EXCEPT ![c] = "done"]
                  /\ UNCHANGED <<asset_cache, woke, panicked>>
             [] e.st = "Loaded" /\ o # NoVal ->
                  /\ asset_cache' = [asset_cache EXCEPT ![h.shard][k] = BuiltState(e, o)]
                  /\ result' = [result EXCEPT ![c] =
                                    IF o.kind = "asset" THEN OkResult(o) ELSE ErrResult(o)]
                  /\ woke' = WokeAfter(e.wakers)
                  /\ cpc' = [PcAfterWake(e.wakers) EXCEPT ![c] = "done"]
                  /\ UNCHANGED panicked
             [] OTHER ->
                  /\ panicked' = panicked \cup {"build_unreachable"}
                  /\ cpc' = [cpc EXCEPT ![c] = "panicked"]
                  /\ UNCHANGED <<asset_cache, result, woke>>
    /\ UNCHANGED <<path_cache, asset_lock, path_lock, load_task,
                   find_task, handle, nreg, counters>>
    /\ UNCHANGED outside

\* ------------------------------------------------------------------------
Next ==
    \/ \E c \in Callers, m \in Modes, k \in RequestKeys : LoadId(c, m, k)
    \/ \E c \in Callers, m \in Modes, pk \in RequestPaths : LoadPath(c, m, pk)
    \/ \E c \in Callers : LoadPathThenId(c)
    \/ \E c \in Callers : PollKnownId(c)
    \/ \E c \in Callers : PollSearching(c)
    \/ \E c \in Callers : PollAsset(c)
    \/ \E c \in Callers : PollTerminal(c)
    \/ \E c \in Callers : Get(c)
    \/ \E c \in Callers : Repoll(c)
    \/ \E c \in Callers : Build(c)
    \/ \E c \in Callers : BuildCell(c)
    \/ \E c \in Callers : BuildPublish(c)
    \/ \E k \in TypeKey : LoadSource(k)
    \/ \E k \in TypeKey : Decode(k)
    \/ \E k \in TypeKey : Publish(k)
    \/ \E pk \in PathKey : FindSource(pk)
    \/ \E pk \in PathKey : FindMissing(pk)
    \/ \E pk \in PathKey : FindLockPath(pk)
    \/ \E pk \in PathKey : FindLockId(pk)
    \/ \E pk \in PathKey : FindUnlock(pk)

Spec == Init /\ [][Next]_vars

\* ------------------------------------------------------------------------
\* Composite assets: the Asset implementation the derive macro generates
\* for a struct with external fields.

\* The composite asset and the asset its field f refers to.
Composite == <<1, CompositeId>>
FieldKey(f) == <<1, FieldId(f)>>

\* The field-error variant of the generated DecodeError enum.
FieldError(f) == [kind |-> "field_error", by |-> f]

\* deserialize_info(&*bytes).map_err(DecodeError::Info): when it fails the
\* decode future is `async move { Err(err) }` and no field is decoded.
DecodeInfo ==
    /\ load_task[Composite].pc = "decode"
    /\ counters' = [counters EXCEPT !.decode[Composite] = @ + 1]
    /\ \E r \in {"Ok", "Err"} :
        load_task' = [load_task EXCEPT ![Composite] =
            IF r = "Ok" THEN [@ EXCEPT !.pc = "fields"]
            ELSE [@ EXCEPT !.pc = "publish", !.new_state = ErrorAsset(DecodeError)]]
    /\ UNCHANGED <<asset_cache, path_cache, asset_lock, path_lock, decoded, find_task,
                   handle, cpc, opt, result, nreg, woke, panicked>>
    /\ UNCHANGED outside

\* The futures struct is filled field by field, in declaration order:
\* AssetField<External>::decode(info.f, loader) is loader.load(id), and the
\* AssetHandle it returns is the field's future.
FieldLoad(f) ==
    /\ load_task[Composite].pc = "fields"
    /\ LoadId(f, "loaded", FieldKey(f))

FieldsLoaded == \A f \in Fields : cpc[f] # "idle"

\* `f: futures.f.await.map_err(..)?`: the async block awaits the fields one
\* after another; field f is polled once every field before it resolved to
\* Ok.  The handle of a field is Loading when it is made, so its poll is
\* the poll of the id-entry.
FieldAwait(f) ==
    /\ load_task[Composite].pc = "fields"
    /\ FieldsLoaded
    /\ \A g \in Fields : g < f => cpc[g] = "loaded"
    /\ PollAsset(f)

\* Mutant: the decoded struct is made once the first field resolved.
AwaitedFields_FirstOnly == {1}

\* The fields whose futures the decoded struct is made from.
AwaitedFields == Fields

FieldsDecoded == \A f \in AwaitedFields : cpc[f] = "loaded"
FailedFields == {f \in Fields : cpc[f] = "done" /\ result[f].kind \in {"err", "notfound"}}
FirstOf(S) == CHOOSE f \in S : \A g \in S : f <= g

\* The async block returns: Ok(decoded) after the last field, or through
\* `?` the error variant of the field whose future resolved to Err.
DecodeFinish ==
    /\ load_task[Composite].pc = "fields"
    /\ FieldsLoaded
    /\ IF FailedFields # {}
       THEN /\ load_task' = [load_task EXCEPT
                                ![Composite].pc = "publish",
                                ![Composite].new_state = ErrorAsset(FieldError(FirstOf(FailedFields)))]
            /\ UNCHANGED decoded
       ELSE /\ FieldsDecoded
            /\ load_task' = [load_task EXCEPT ![Composite].pc = "publish"]
            /\ decoded' = [decoded EXCEPT ![Composite] = [content |-> "Some", lock |-> 0]]
    /\ UNCHANGED <<asset_cache, path_cache, asset_lock, path_lock, find_task,
                   handle, cpc, opt, result, nreg, woke, counters, panicked>>
    /\ UNCHANGED outside

\* The loader after load_with_id(CompositeId) was called once: the entry is
\* Unloaded and its load task was spawned.
InitComposite ==
    /\ asset_cache = [s \in Shards |-> [k \in TypeKey |->
                        IF k = Composite /\ s = AssetShardOf(k)
                        THEN UnloadedAsset(<<>>) ELSE VacantAsset]]
    /\ path_cache = [s \in Shards |-> [pk \in PathKey |-> VacantPath]]
    /\ asset_lock = [s \in Shards |-> Free]
    /\ path_lock = [s \in Shards |-> Free]
    /\ decoded = [k \in TypeKey |-> NoCell]
    /\ load_task = [k \in TypeKey |->
                        IF k = Composite THEN StartedLoadTask(Spawned(k)) ELSE NoLoadTask]
    /\ find_task = [pk \in PathKey |-> NoFindTask]
    /\ handle = [c \in Callers |-> NoHandle]
    /\ cpc = [c \in Callers |-> "idle"]
    /\ opt = [c \in Callers |-> NoVal]
    /\ result = [c \in Callers |-> NoResult]
    /\ nreg = [c \in Callers |-> 0]
    /\ woke = EmptyBag
    /\ counters = [load |-> [s \in Sources |-> [k \in TypeKey |-> 0]],
                   find |-> [s \in Sources |-> [pk \in PathKey |-> 0]],
                   decode |-> [k \in TypeKey |-> 0],
                   build |-> [k \in TypeKey |-> 0],
                   load_tasks |-> [k \in TypeKey |-> IF k = Composite THEN 1 ELSE 0],
                   find_tasks |-> [pk \in PathKey |-> 0]]
    /\ panicked = {}
    /\ idgen = NoIdGen /\ store = NoStore /\ dylib = NoDylib
    /\ builder = BuiltLoader(NumShards, NumShards)
    /\ id_text = NoText

\* The load task of the composite and those of its fields' assets; the
\* field futures are the callers 1..NumFields.
NextComposite ==
    \/ \E k \in TypeKey : LoadSource(k)
    \/ \E k \in TypeKey : Decode(k)
    \/ \E k \in TypeKey : Publish(k)
    \/ DecodeInfo
    \/ \E f \in Fields : FieldLoad(f)
    \/ \E f \in Fields : FieldAwait(f)
    \/ DecodeFinish

SpecComposite == InitComposite /\ [][NextComposite]_vars

\* ------------------------------------------------------------------------
\* Properties.

AssetStateOf(k) == asset_cache[AssetShardOf(k)][k]
PathStateOf(pk) == path_cache[PathShardOf(pk)][pk]

Count(ws, w) == Cardinality({i \in DOMAIN ws : ws[i] = w})

\* Every waker that is on some list, and every waker ever seen.
ListedWakers ==
    UNION ({Range(asset_cache[s][k].wakers) : s \in Shards, k \in TypeKey}
           \cup {Range(path_cache[s][pk].asset_wakers) : s \in Shards, pk \in PathKey}
           \cup {Range(path_cache[s][pk].id_wakers) : s \in Shards, pk \in PathKey}
           \cup {Range(find_task[pk].moving_wakers) : pk \in PathKey})
AllWakers == ListedWakers \cup BagToSet(woke)

\* Every registration a caller made is still on a list or was woken.
NoWakerLost ==
    \A c \in Callers : \A n \in 1..nreg[c] : \E w \in AllWakers : w.c = c /\ w.n = n

\* C1: for every asset type and id at most one load task runs, however the
\* load calls for the key are made (by id or by a path that resolves to the
\* id): each source's load is called at most once for the key and decode is
\* started at most once.
C1_AtMostOneLoadTask ==
    \A k \in TypeKey :
        /\ counters.load_tasks[k] <= 1
        /\ counters.decode[k] <= 1
        /\ \A s \in Sources : counters.load[s][k] <= 1

\* Two callers hold handles for the same id, one obtained by id and one by
\* path, every source was asked once and decode ran once.
C1_Witness ==
    \E k \in TypeKey, c1 \in Callers, c2 \in Callers :
        /\ handle[c1].type = k[1] /\ handle[c1].id = k[2] /\ handle[c1].path = 0
        /\ handle[c1].state # "None"
        /\ handle[c2].type = k[1] /\ handle[c2].id = k[2] /\ handle[c2].path # 0
        /\ counters.decode[k] = 1
        /\ \A s \in Sources : counters.load[s][k] = 1

Terminal(r) == r.kind \in {"ok", "err", "notfound"}
Outcome(r) == <<r.kind, r.val>>
EntryOutcome(e) ==
    CASE e.st = "Ready" -> <<"ok", e.val>>
      [] e.st = "Error" -> <<"err", e.val>>
      [] e.st = "Missing" -> <<"notfound", NoVal>>
      [] OTHER -> <<"none", NoVal>>
SameKey(h1, h2) ==
    /\ h1.type = h2.type
    /\ h1.id = h2.id
    /\ h1.id = 0 => h1.path = h2.path

\* C2: all callers that observe a terminal outcome for a key observe the
\* same one, the built value or the error stored in the entry; a decode
\* failure reaches every requester with decode run once.
C2_SameOutcome ==
    /\ \A c1 \in Callers, c2 \in Callers :
        Terminal(result[c1]) /\ Terminal(result[c2]) /\ SameKey(handle[c1], handle[c2])
            => Outcome(result[c1]) = Outcome(result[c2])
    /\ \A c \in Callers :
        Terminal(result[c]) /\ handle[c].id # 0
            => Outcome(result[c]) = EntryOutcome(AssetStateOf(<<handle[c].type, handle[c].id>>))
    /\ \A c \in Callers :
        result[c] = ErrResult(DecodeError)
            => counters.decode[<<handle[c].type, handle[c].id>>] = 1

\* Two callers of one key both hold the decode error, one of them through
\* the loaded surface.
C2_Witness ==
    \E c1 \in Callers, c2 \in Callers :
        /\ c1 # c2
        /\ SameKey(handle[c1], handle[c2])
        /\ result[c1] = ErrResult(DecodeError) /\ result[c2] = result[c1]
        /\ handle[c2].mode = "loaded"

AssetStep(a, b) ==
    \/ a.st = b.st /\ (a.st \in {"Ready", "Missing", "Error"} => a = b)
    \/ a.st = "Vacant" /\ b.st = "Unloaded"
    \/ a.st = "Unloaded" /\ b.st \in {"Loaded", "Missing", "Error"}
    \/ a.st = "Loaded" /\ b.st \in {"Ready", "Error"}
PathStep(a, b) ==
    \/ a.st = b.st /\ (a.st \in {"Loaded", "Missing"} => a = b)
    \/ a.st = "Vacant" /\ b.st = "Unloaded"
    \/ a.st = "Unloaded" /\ b.st \in {"Loaded", "Missing"}

\* C3: an id-entry only moves forward (Unloaded to Loaded, Missing or Error;
\* Loaded to Ready or Error) and a Ready, Missing or Error entry never
\* changes again; a path entry moves only from Unloaded to Loaded or
\* Missing and then never changes.
C3_ForwardOnly ==
    [][\A s \in Shards :
        /\ \A k \in TypeKey : AssetStep(asset_cache[s][k], asset_cache'[s][k])
        /\ \A pk \in PathKey : PathStep(path_cache[s][pk], path_cache'[s][pk])]_vars

\* An id-entry went all the way to Ready behind a path entry that is Loaded.
C3_Witness ==
    \E pk \in PathKey :
        /\ PathStateOf(pk).st = "Loaded"
        /\ AssetStateOf(<<pk[1], PathStateOf(pk).id>>).st = "Ready"

\* The state of the entry a waker was registered on, and the list a waker
\* that is not handed off stays on.
EntryStOf(w) == IF w.tab = "id" THEN AssetStateOf(w.key).st ELSE PathStateOf(w.key).st
OwnList(w) == IF w.tab = "id" THEN AssetStateOf(w.key).wakers ELSE PathStateOf(w.key).id_wakers

\* C4: every waker registered on an id-entry while it is Unloaded or Loaded
\* (and every id_waker of a path entry) is woken exactly once, at the
\* transition that takes the entry out of the state it was registered in:
\* while the entry is in that state the waker is on its list and not woken,
\* afterwards it is on no list and was woken once; no registered waker is
\* lost and none is woken twice.
C4_WokenExactlyOnce ==
    /\ NoWakerLost
    /\ \A w \in AllWakers : CopiesIn(w, woke) <= 1
    /\ \A w \in AllWakers :
        w.list # "asset_wakers" =>
            IF EntryStOf(w) = w.st
            THEN Count(OwnList(w), w) = 1 /\ CopiesIn(w, woke) = 0
            ELSE w \notin ListedWakers /\ CopiesIn(w, woke) = 1

\* One caller's waker registered on the Unloaded id-entry and its waker
\* registered on the Loaded id-entry have both been woken.
C4_Witness ==
    \E w1 \in BagToSet(woke), w2 \in BagToSet(woke) :
        /\ w1.c = w2.c /\ w1.key = w2.key
        /\ w1.tab = "id" /\ w1.st = "Unloaded"
        /\ w2.tab = "id" /\ w2.st = "Loaded"

\* C5: a task woken because an entry changed state observes the new state
\* when it next polls the entry: whenever the entry's shard lock is free
\* (a poll can read the entry), the entry of a woken waker is no longer in
\* the state the waker was registered on, and a woken asset_waker finds the
\* id-entry past Unloaded.
C5_WokenObservesNewState ==
    \A w \in BagToSet(woke) :
        IF w.tab = "id"
        THEN asset_lock[AssetShardOf(w.key)] = Free => AssetStateOf(w.key).st # w.st
        ELSE path_lock[PathShardOf(w.key)] = Free =>
                LET p == PathStateOf(w.key)
                    k == <<w.key[1], p.id>>
                IN  /\ p.st # w.st
                    /\ (w.list = "asset_wakers" /\ p.st = "Loaded"
                        /\ asset_lock[AssetShardOf(k)] = Free)
                            => AssetStateOf(k).st \notin {"Vacant", "Unloaded"}

\* A caller whose waker on the Unloaded id-entry was woken has polled again
\* and its handle has left Loading.
C5_Witness ==
    \E w \in BagToSet(woke) :
        /\ w.tab = "id" /\ w.st = "Unloaded"
        /\ w.n = nreg[w.c]
        /\ handle[w.c].state \in {"Loaded", "Missing", "Error"}

\* C6: for every id-entry the decoded value is taken out of the decoded
\* cell at most once and the asset's build function is invoked at most
\* once, whatever build calls are made.
C6_BuildAtMostOnce ==
    \A k \in TypeKey :
        /\ counters.build[k] <= 1
        /\ decoded[k].content = "Some" => counters.build[k] = 0

\* Two callers raced to build: one built and returned, the other found the
\* cell empty.
C6_Witness ==
    \E c1 \in Callers, c2 \in Callers :
        /\ c1 # c2 /\ SameKey(handle[c1], handle[c2])
        /\ cpc[c1] = "done" /\ result[c1] = OkResult(Asset(c1))
        /\ cpc[c2] = "build_publish" /\ opt[c2] = NoVal
        /\ counters.build[<<handle[c1].type, handle[c1].id>>] = 1

\* C7: when a find task resolves a path to an id, every asset_waker of the
\* path entry is in exactly one place: on the path entry (still Unloaded),
\* in the find task's moving_wakers, on the wakers of the Unloaded id-entry
\* (created with them or appended to), or woken once, the id-entry having
\* left Unloaded; none is lost.  The find task goes on to load the asset
\* exactly when it created the id-entry.
C7_Handoff ==
    /\ NoWakerLost
    /\ \A w \in AllWakers :
        w.list = "asset_wakers" =>
            LET pk == w.key
                p == PathStateOf(pk)
                ft == find_task[pk]
                k == <<pk[1], p.id>>
                inPath == Count(p.asset_wakers, w)
                inMoving == Count(ft.moving_wakers, w)
                inId == IF p.st = "Loaded" THEN Count(AssetStateOf(k).wakers, w) ELSE 0
                isWoken == CopiesIn(w, woke)
            IN  /\ inPath + inMoving + inId + isWoken = 1
                /\ \A s \in Shards, k2 \in TypeKey :
                    Count(asset_cache[s][k2].wakers, w) > 0
                        => p.st = "Loaded" /\ k2 = k /\ s = AssetShardOf(k)
                /\ inPath = 1 => p.st = "Unloaded"
                /\ inMoving = 1 /\ ft.pc = "locked_both"
                    => AssetStateOf(k).st \notin {"Vacant", "Unloaded"}
                /\ inId = 1 => AssetStateOf(k).st = "Unloaded"
                /\ isWoken = 1 =>
                    \/ p.st = "Missing"
                    \/ p.st = "Loaded" /\ AssetStateOf(k).st \notin {"Vacant", "Unloaded"}
    /\ \A pk \in PathKey :
        find_task[pk].pc = "done" /\ PathStateOf(pk).st = "Loaded" =>
            (find_task[pk].created
                <=> load_task[<<pk[1], PathStateOf(pk).id>>].by = FindTask(pk))

\* An asset_waker of the path entry sits on the wakers of an Unloaded
\* id-entry that a load by id had created: it was appended.
C7_Witness ==
    \E pk \in PathKey :
        LET k == <<pk[1], PathStateOf(pk).id>> IN
        /\ PathStateOf(pk).st = "Loaded"
        /\ load_task[k].by = Spawned(k)
        /\ \E w \in Range(AssetStateOf(k).wakers) : w.list = "asset_wakers" /\ w.key = pk

C9_SharedEntry ==
    \A pk \in PathKey :
        LET p == PathStateOf(pk)
            k == <<pk[1], p.id>>
        IN  (p.st = "Loaded" /\ path_lock[PathShardOf(pk)] = Free) =>
            /\ {s \in Shards : asset_cache[s][k].st # "Vacant"} = {AssetShardOf(k)}
            /\ \A c \in Callers :
                /\ (handle[c].type = pk[1] /\ handle[c].path = pk[2] /\ handle[c].id # 0)
                    => handle[c].id = p.id
                /\ (handle[c].type = k[1] /\ handle[c].id = k[2]
                    /\ handle[c].state \in {"Loading", "Loaded"})
                    => handle[c].shard = AssetShardOf(k)

\* A handle obtained by path and re-keyed to the id, and a handle obtained
\* by id, both on the id-entry the path resolved to.
C9_Witness ==
    \E pk \in PathKey, c1 \in Callers, c2 \in Callers :
        LET p == PathStateOf(pk) IN
        /\ p.st = "Loaded" /\ path_lock[PathShardOf(pk)] = Free
        /\ handle[c1].type = pk[1] /\ handle[c1].path = pk[2] /\ handle[c1].id = p.id
        /\ handle[c1].state \in {"Loading", "Loaded"}
        /\ handle[c2].type = pk[1] /\ handle[c2].path = 0 /\ handle[c2].id = p.id
        /\ handle[c2].state \in {"Loading", "Loaded"}

\* C10: for every asset type and path only the load call that inserts the
\* path entry spawns a find task, so at most one find task runs for the key
\* and each source's find is called at most once for it.
C10_AtMostOneFindTask ==
    \A pk \in PathKey :
        /\ counters.find_tasks[pk] <= 1
        /\ \A s \in Sources : counters.find[s][pk] <= 1

\* Two callers loaded the same path, the second one found the entry
\* occupied; every source was asked once.
C10_Witness ==
    \E pk \in PathKey, c1 \in Callers, c2 \in Callers :
        /\ c1 # c2
        /\ handle[c1].type = pk[1] /\ handle[c1].path = pk[2]
        /\ handle[c2].type = pk[1] /\ handle[c2].path = pk[2]
        /\ counters.find_tasks[pk] = 1
        /\ \A s \in Sources : counters.find[s][pk] = 1

\* A load call of caller c returns in this step.
LoadReturns(c) == cpc[c] \in {"idle", "load_with_id"} /\ cpc'[c] = "run"

\* A load call that finds the id-entry Missing or Error, or the path entry
\* Missing, returns a handle in that state carrying the stored error, starts
\* no load or find task, calls no source and leaves both caches as they are.
FailedEntryNotReloaded ==
    \A c \in Callers :
        LoadReturns(c) =>
            LET h == handle'[c]
                e == AssetStateOf(<<h.type, h.id>>)
            IN  /\ (h.id # 0 /\ e.st \in {"Missing", "Error"}) =>
                    /\ h.state = e.st /\ h.val = e.val
                    /\ UNCHANGED <<asset_cache, path_cache, load_task, find_task, counters>>
                /\ (h.id = 0 /\ PathStateOf(<<h.type, h.path>>).st = "Missing") =>
                    /\ h.state = "Missing"
                    /\ UNCHANGED <<asset_cache, path_cache, load_task, find_task, counters>>

\* The handle a load call returned in state Missing or Error resolves: the
\* poll of it does not panic.
FailedHandleResolves ==
    \A c \in Callers : handle[c].state \in {"Missing", "Error"} => cpc[c] # "panicked"

\* C11: once an id-entry is Missing or Error, or a path entry is Missing,
\* every later load call for the key returns a handle that resolves to the
\* stored outcome, spawns no task and calls no source again.
C11_FailureMemoised == [][FailedEntryNotReloaded]_vars /\ []FailedHandleResolves

\* The part of C11 that is about the load call alone.
C11_NoNewWork == [][FailedEntryNotReloaded]_vars

\* The callers whose handle is on the id-entry k.
CallersOf(k) == {c \in Callers : handle[c].type = k[1] /\ handle[c].id = k[2]}

\* C12: when source s answers a load with an error, the load task stops
\* there: every source before s was called once, no source after s is
\* called, decode is not run, the id-entry becomes Error holding the error
\* of s, and every caller that gets an outcome for the entry gets that
\* error.
C12_SourceErrorAborts ==
    \A k \in TypeKey : \A s \in Sources :
        (\/ load_task[k].new_state = ErrorAsset(SourceError(s))
         \/ AssetStateOf(k) = ErrorAsset(SourceError(s))) =>
            /\ \A s2 \in Sources : counters.load[s2][k] = (IF s2 <= s THEN 1 ELSE 0)
            /\ counters.decode[k] = 0
            /\ decoded[k] = NoCell
            /\ counters.build[k] = 0
            /\ load_task[k].pc \in {"publish", "done"}
            /\ load_task[k].pc = "done" <=> AssetStateOf(k) = ErrorAsset(SourceError(s))
            /\ load_task[k].pc = "publish" => AssetStateOf(k).st = "Unloaded"
            /\ \A c \in CallersOf(k) :
                Terminal(result[c]) => result[c] = ErrResult(SourceError(s))

\* The first source failed, the second was never asked, and two callers
\* that were waiting for the entry both received the first source's error.
C12_Witness ==
    \E k \in TypeKey, c1 \in Callers, c2 \in Callers :
        /\ c1 # c2
        /\ AssetStateOf(k) = ErrorAsset(SourceError(1))
        /\ counters.load[2][k] = 0
        /\ {c1, c2} \subseteq CallersOf(k)
        /\ nreg[c1] > 0 /\ nreg[c2] > 0
        /\ result[c1] = ErrResult(SourceError(1)) /\ result[c2] = result[c1]

\* The calls made to source s2 by a lookup that is at source s: every
\* source before s was called once, no source after s was called, and s
\* itself was called unless the lookup is about to call it.
CallsInOrder(s2, s, calling) ==
    IF s2 < s THEN 1 ELSE IF s2 = s /\ ~calling THEN 1 ELSE 0

\* C13: within one load and within one find the sources are consulted one
\* at a time in the builder's order and consultation stops at the first
\* source that returns Some: while a lookup is still consulting, no source
\* has returned Some; once it has stopped at source s, every source before
\* s was called exactly once (and returned None), s was called once and no
\* source after s was called; the data decoded is that of s.
C13_SourcesInOrder ==
    /\ \A k \in TypeKey :
        LET lt == load_task[k] IN
        lt.pc # "none" =>
            /\ lt.src \in Sources
            /\ \A s2 \in Sources :
                counters.load[s2][k] = CallsInOrder(s2, lt.src, lt.pc = "load")
            /\ lt.pc = "load" => lt.new_state = VacantAsset
            /\ lt.new_state.st = "Loaded" => lt.new_state.source = lt.src
            /\ lt.new_state.st = "Missing" => lt.src = NumSources
            /\ AssetStateOf(k).st \in {"Loaded", "Ready"} => AssetStateOf(k).source = lt.src
    /\ \A pk \in PathKey :
        LET ft == find_task[pk] IN
        ft.pc # "none" =>
            /\ ft.src \in Sources
            /\ \A s2 \in Sources :
                counters.find[s2][pk] = CallsInOrder(s2, ft.src, ft.pc = "find")
            /\ ft.pc = "find" => ft.id = 0
            /\ ft.pc = "notfound" => ft.src = NumSources /\ ft.id = 0
            /\ PathStateOf(pk).st = "Loaded" => PathStateOf(pk).id = ft.id /\ ft.id # 0

\* A load stopped at the second source after the first returned None, and
\* a find stopped at the first source, the second never being asked.
C13_Witness ==
    \E k \in TypeKey, pk \in PathKey :
        /\ AssetStateOf(k).st = "Loaded" /\ AssetStateOf(k).source = 2
        /\ counters.load[1][k] = 1 /\ counters.load[2][k] = 1
        /\ PathStateOf(pk).st = "Loaded"
        /\ counters.find[1][pk] = 1 /\ counters.find[2][pk] = 0

\* C14: when every source returned None for an id, the id-entry becomes
\* Missing and a caller that asked by id and gets an outcome gets NotFound
\* with that id and no path; when every source returned None for a path,
\* the path entry becomes Missing and a caller that gets an outcome gets
\* NotFound with that path and no id.
C14_NotFoundCarriesKey ==
    /\ \A k \in TypeKey :
        LET lt == load_task[k] IN
        /\ (lt.pc \in {"publish", "done"} /\ lt.new_state.st \notin {"Loaded", "Error"}) =>
            /\ lt.new_state = MissingAsset
            /\ \A s \in Sources : counters.load[s][k] = 1
            /\ counters.decode[k] = 0
            /\ lt.pc = "done" => AssetStateOf(k) = MissingAsset
        /\ AssetStateOf(k).st = "Missing" =>
            /\ lt.pc = "done" /\ lt.new_state = MissingAsset
            /\ \A c \in CallersOf(k) :
                (handle[c].path = 0 /\ Terminal(result[c]))
                    => result[c] = NotFound(k[2], 0)
    /\ \A pk \in PathKey :
        LET ft == find_task[pk] IN
        /\ (ft.pc = "notfound" \/ (ft.pc = "done" /\ ft.id = 0)) =>
            /\ \A s \in Sources : counters.find[s][pk] = 1
            /\ ft.pc = "done" => PathStateOf(pk) = MissingPath
        /\ PathStateOf(pk).st = "Missing" =>
            /\ ft.pc = "done" /\ ft.id = 0
            /\ \A k \in TypeKey : load_task[k].by # FindTask(pk)
            /\ \A c \in Callers :
                (handle[c].type = pk[1] /\ handle[c].path = pk[2])
                    => /\ handle[c].id = 0
                       /\ Terminal(result[c]) => result[c] = NotFound(0, pk[2])

\* A caller that waited for the path got NotFound with the path and no id,
\* and a caller that waited for the id got NotFound with the id and no path.
C14_Witness ==
    \E c1 \in Callers, c2 \in Callers :
        /\ handle[c1].path # 0 /\ nreg[c1] > 0
        /\ result[c1] = NotFound(0, handle[c1].path)
        /\ handle[c2].path = 0 /\ handle[c2].id # 0 /\ nreg[c2] > 0
        /\ result[c2] = NotFound(handle[c2].id, 0)

\* C15: if a source's find resolved a path to id i but every source's
\* load(i) returned None, then once the load task has completed the path
\* entry is Loaded{i}, the id-entry is Missing, and every handle obtained
\* through the path that gets an outcome gets NotFound (with the id, and
\* with the path when the handle was still searching); no such handle
\* panics.
C15_ResolvedButMissing ==
    \A pk \in PathKey :
        LET i == find_task[pk].id
            k == <<pk[1], i>>
        IN  (/\ find_task[pk].pc = "done" /\ i # 0
             /\ load_task[k].pc = "done"
             /\ load_task[k].new_state = MissingAsset) =>
                /\ PathStateOf(pk) = LoadedPath(i)
                /\ AssetStateOf(k) = MissingAsset
                /\ \A s \in Shards : s # AssetShardOf(k) => asset_cache[s][k] = VacantAsset
                /\ \A c \in Callers :
                    (handle[c].type = pk[1] /\ (handle[c].path = pk[2] \/ handle[c].id = i)) =>
                        /\ cpc[c] # "panicked"
                        /\ Terminal(result[c]) => result[c] = NotFound(i, handle[c].path)
                        /\ result[c].kind \in {"none", "id", "notfound"}

\* The path resolved, the load found nothing, and a caller that had been
\* waiting on the path received NotFound.
C15_Witness ==
    \E pk \in PathKey, c \in Callers :
        LET i == PathStateOf(pk).id IN
        /\ PathStateOf(pk).st = "Loaded"
        /\ AssetStateOf(<<pk[1], i>>) = MissingAsset
        /\ load_task[<<pk[1], i>>].by = FindTask(pk)
        /\ handle[c].type = pk[1] /\ handle[c].path = pk[2] /\ nreg[c] > 0
        /\ result[c] = NotFound(i, pk[2])

\* Caller c holds a handle that returned a built value, NotFound or an
\* error from a polling method that can be called again.
ReturnedTerminal(c) ==
    /\ cpc[c] = "done"
    /\ result[c].kind \in {"ok", "err", "notfound"}
    /\ CachesResult(handle[c].mode) \/ handle[c].state \in {"Error", "Missing"}

\* The further poll of c's handle returns the outcome it returned before.
RepollSame(c) == Repoll(c) /\ cpc'[c] = "repolled" /\ result'[c] = result[c]

\* A further poll can go ahead whoever holds the shard locks.
RepollNeedsNoLock == \A c \in Callers : ReturnedTerminal(c) => ENABLED RepollSame(c)

\* Every further poll returns the same outcome and leaves locks and caches
\* alone.
RepollReturnsSame ==
    \A c \in Callers :
        (cpc[c] = "done" /\ cpc'[c] # "done") =>
            /\ cpc'[c] = "repolled" /\ result'[c] = result[c]
            /\ UNCHANGED <<asset_lock, path_lock, asset_cache, path_cache>>

\* C16: after a handle has returned a terminal outcome (built value,
\* NotFound or error) from a polling method, every further poll of the
\* handle returns the same outcome and does not lock any cache shard.
C16_RepollIdempotent == []RepollNeedsNoLock /\ [][RepollReturnsSame]_vars

\* The part of C16 that is about locks.
C16_NoLock == []RepollNeedsNoLock

\* Caller c polls its handle in this step, reading the id-entry.
PollsAsset(c) ==
    /\ cpc[c] = "run" /\ cpc'[c] # "run"
    /\ handle[c].state \in {"Loading", "Loaded"}

\* The loaded surface completes on a Loaded entry without a build; the
\* ready surface stays pending on a Loaded entry and on an Unloaded one,
\* and completes reading a Ready, Missing or Error entry.
PollUpToLoadedOrReady ==
    \A c \in Callers :
        PollsAsset(c) =>
            LET h == handle[c]
                e == asset_cache[h.shard][<<h.type, h.id>>]
            IN  /\ UNCHANGED <<counters, decoded>>
                /\ (h.mode = "loaded" /\ e.st = "Loaded") =>
                        cpc'[c] = "loaded" /\ result'[c] = LoadedResult
                /\ (h.mode = "ready" /\ e.st \in {"Unloaded", "Loaded"}) =>
                        /\ cpc'[c] = "wait" /\ result'[c] = NoResult
                        /\ Len(asset_cache'[h.shard][<<h.type, h.id>>].wakers) = Len(e.wakers) + 1
                /\ (h.mode = "ready" /\ cpc'[c] = "get") =>
                        /\ e.st \in {"Ready", "Missing", "Error"}
                        /\ asset_cache' = asset_cache

\* A caller awaiting ready() never is in a build, and has a built value
\* only when the entry is Ready with that value; a caller that awaited
\* loaded() and has not built yet has caused no build.
ReadyNeverBuilds ==
    \A c \in Callers :
        /\ handle[c].mode = "ready" =>
            /\ cpc[c] \notin {"build", "loaded", "build_cell", "build_publish"}
            /\ result[c].kind = "ok" =>
                /\ AssetStateOf(<<handle[c].type, handle[c].id>>).st = "Ready"
                /\ result[c].val = AssetStateOf(<<handle[c].type, handle[c].id>>).val
                /\ result[c].val.by # c
        /\ (handle[c].mode = "loaded" /\ cpc[c] = "loaded") =>
            /\ AssetStateOf(<<handle[c].type, handle[c].id>>).st \in {"Loaded", "Ready", "Error"}
            /\ opt[c] = NoVal

\* C17: awaiting loaded() (or the handle) completes as soon as the id-entry
\* is Loaded, without a build being run; awaiting ready() never runs a
\* build and completes only when the entry is Ready, Missing or Error, so
\* on a Loaded entry it stays pending until another caller builds.
C17_LoadedVersusReady == [][PollUpToLoadedOrReady]_vars /\ []ReadyNeverBuilds

\* On one Loaded entry that nobody has built, the caller awaiting loaded()
\* has completed and the caller awaiting ready() is pending on the entry's
\* wakers.
C17_Witness ==
    \E c1 \in Callers, c2 \in Callers :
        LET k == <<handle[c1].type, handle[c1].id>> IN
        /\ handle[c1].mode = "loaded" /\ cpc[c1] = "loaded" /\ result[c1] = LoadedResult
        /\ handle[c2].mode = "ready" /\ cpc[c2] = "wait" /\ handle[c2].state = "Loaded"
        /\ SameKey(handle[c1], handle[c2]) /\ handle[c1].id # 0
        /\ AssetStateOf(k).st = "Loaded" /\ counters.build[k] = 0
        /\ \E w \in Range(AssetStateOf(k).wakers) : w.c = c2 /\ w.st = "Loaded"

\* Caller c, awaiting id() on a handle obtained by path, polls in this step.
PollsForId(c) ==
    /\ cpc[c] = "run" /\ cpc'[c] # "run"
    /\ handle[c].mode = "id" /\ handle[c].state = "Searching"

\* The poll completes with the id on a Loaded path entry and with NotFound
\* on a Missing one, whatever the id-entry is; on an Unloaded path entry the
\* waker goes to id_wakers and the caller is pending.
IdPollFollowsPathOnly ==
    \A c \in Callers :
        PollsForId(c) =>
            LET h == handle[c]
                pk == <<h.type, h.path>>
                e == path_cache[h.shard][pk]
            IN  /\ UNCHANGED <<asset_cache, asset_lock, counters>>
                /\ e.st = "Loaded" => cpc'[c] = "done" /\ result'[c] = IdResult(e.id)
                /\ e.st = "Missing" => cpc'[c] = "done" /\ result'[c] = NotFound(0, h.path)
                /\ e.st = "Unloaded" =>
                    /\ cpc'[c] = "wait"
                    /\ path_cache'[h.shard][pk].asset_wakers = e.asset_wakers
                    /\ Len(path_cache'[h.shard][pk].id_wakers) = Len(e.id_wakers) + 1

\* The wakers of a caller awaiting id() are id_wakers of the path entry:
\* never asset_wakers, never wakers of an id-entry, and woken by the time
\* the path entry is resolved and unlocked.
IdWakersOnly ==
    \A w \in AllWakers :
        handle[w.c].mode = "id" =>
            /\ w.tab = "path" /\ w.list = "id_wakers"
            /\ \A s \in Shards, k \in TypeKey : Count(asset_cache[s][k].wakers, w) = 0
            /\ \A pk \in PathKey : Count(find_task[pk].moving_wakers, w) = 0
            /\ PathStateOf(w.key).st # "Unloaded" => CopiesIn(w, woke) = 1

\* C18: a caller awaiting id() on a handle obtained by path completes as
\* soon as the path entry is resolved, with the id when it is Loaded and
\* with NotFound when it is Missing, while the id-entry may still be
\* Unloaded; it is woken through id_wakers and does not wait for the bytes
\* to be loaded or decoded.
C18_IdWaitsForPathOnly == [][IdPollFollowsPathOnly]_vars /\ []IdWakersOnly

\* A caller awaiting id() was pending, was woken and completed with the id
\* while the id-entry is Unloaded and no source has been asked to load it.
C18_Witness ==
    \E c \in Callers, w \in BagToSet(woke) :
        LET k == <<handle[c].type, handle[c].id>> IN
        /\ handle[c].mode = "id" /\ handle[c].path # 0 /\ handle[c].id # 0
        /\ w.c = c /\ w.list = "id_wakers"
        /\ cpc[c] = "done" /\ result[c] = IdResult(handle[c].id)
        /\ AssetStateOf(k).st = "Unloaded"
        /\ \A s \in Sources : counters.load[s][k] = 0

\* The scheduling the executor gives the load tasks: a task that can take
\* a step is polled, and a source answers.
FairSpecComposite == SpecComposite /\ WF_vars(NextComposite)

ChildLoaded(f) == AssetStateOf(FieldKey(f)).st \in {"Loaded", "Ready"}
AwaitStarted ==
    \/ \E f \in Fields : cpc[f] \notin {"idle", "run"} \/ nreg[f] > 0
    \/ decoded[Composite].content = "Some"
CompositeDecoded ==
    \/ decoded[Composite].content = "Some"
    \/ AssetStateOf(Composite).st \in {"Loaded", "Ready"}

OneLoadPerField ==
    /\ \A f \in Fields : counters.load_tasks[FieldKey(f)] <= 1
    /\ AwaitStarted =>
        /\ Cardinality({f \in Fields : cpc[f] # "idle"}) = NumFields
        /\ \A f \in Fields :
            /\ handle[f].id = FieldId(f)
            /\ handle[f].mode = "loaded"
            /\ counters.load_tasks[FieldKey(f)] = 1
LoadedOnlyAfterChildren == CompositeDecoded => \A f \in Fields : ChildLoaded(f)
ChildrenLoadedWhileAwaited ==
    /\ load_task[Composite].pc = "fields"
    /\ \A f \in Fields : ChildLoaded(f)

\* C19: decoding a composite with K external fields makes one load call per
\* field, each for the field's own id; the decoded value exists, and the
\* composite's entry is Loaded, only when every field's entry is Loaded or
\* Ready; and once every field's entry is Loaded while the decode awaits
\* them, the composite's entry becomes Loaded.
C19_CompositeAfterChildren ==
    /\ []OneLoadPerField
    /\ []LoadedOnlyAfterChildren
    /\ (ChildrenLoadedWhileAwaited ~> AssetStateOf(Composite).st = "Loaded")

\* The composite's entry is Loaded after both field futures resolved to Ok.
C19_Witness ==
    /\ AssetStateOf(Composite).st = "Loaded"
    /\ \A f \in Fields : cpc[f] = "loaded" /\ ChildLoaded(f)
    /\ counters.decode[Composite] = 1

ChildFailed(f) == AssetStateOf(FieldKey(f)).st \in {"Missing", "Error"}
DecodeAwaiting == load_task[Composite].pc = "fields" /\ FieldsLoaded
\* A step the decode future can take when it is polled.
DecodeStep == (\E f \in Fields : FieldAwait(f)) \/ DecodeFinish
FailureEndsDecode ==
    (DecodeAwaiting /\ \E f \in Fields : ChildFailed(f)) => ENABLED DecodeStep
ErrorNamesFailedField ==
    \A f \in Fields :
        (\/ load_task[Composite].new_state = ErrorAsset(FieldError(f))
         \/ AssetStateOf(Composite) = ErrorAsset(FieldError(f)))
        => ChildFailed(f)

\* C20: while the fields of a composite are awaited, a field whose load
\* failed ends the decode at once, whatever the other fields do: the decode
\* future needs no other task's progress to return, and the error it
\* returns names a field that failed.
C20_FirstFailureEndsDecode == FailureEndsDecode /\ ErrorNamesFailedField

\* ------------------------------------------------------------------------
\* A composite whose last external field holds the composite's own id: its
\* decode awaits a handle to the entry the decode itself has to fill.
SelfField == NumFields
CycleFieldKey(f) == IF f = SelfField THEN Composite ELSE FieldKey(f)

FieldLoadCycle(f) ==
    /\ load_task[Composite].pc = "fields"
    /\ LoadId(f, "loaded", CycleFieldKey(f))

NextCycle ==
    \/ \E k \in TypeKey : LoadSource(k)
    \/ \E k \in TypeKey : Decode(k)
    \/ \E k \in TypeKey : Publish(k)
    \/ DecodeInfo
    \/ \E f \in Fields : FieldLoadCycle(f)
    \/ \E f \in Fields : FieldAwait(f)
    \/ DecodeFinish

SpecCycle == InitComposite /\ [][NextCycle]_vars

\* The decode future of the composite is pending on the composite's entry.
AwaitsItself == nreg[SelfField] > 0

\* C21: a dependency cycle is neither detected nor broken.  No site
\* panics and load_with_id hands out a handle to the entry being decoded;
\* the future awaiting it never resolves; the composite's entry is never
\* Loaded or Ready; and from the moment the decode awaits the handle to
\* itself the entry is Unloaded, the load task is inside the decode and the
\* awaiter is pending, in every later state.
C21_CycleNeverResolves ==
    /\ panicked = {}
    /\ cpc[SelfField] \notin {"loaded", "done", "panicked"}
    /\ AssetStateOf(Composite).st \notin {"Loaded", "Ready"}
    /\ cpc[SelfField] # "idle" =>
        /\ handle[SelfField].id = CompositeId
        /\ counters.load_tasks[Composite] = 1
    /\ AwaitsItself =>
        /\ AssetStateOf(Composite).st = "Unloaded"
        /\ load_task[Composite].pc = "fields"
        /\ cpc[SelfField] = "wait"
        /\ ~ENABLED NextCycle

\* The decode awaits the handle to its own entry after the fields before
\* it resolved.
C21_Witness ==
    /\ AwaitsItself
    /\ \A f \in Fields : f < SelfField => cpc[f] = "loaded"
    /\ Len(AssetStateOf(Composite).wakers) = 1

\* ------------------------------------------------------------------------
\* Dropping handles and futures.

\* Mutant: dropping a handle aborts the load task of its key.
TasksAfterDrop_Aborts(c) ==
    LET k == <<handle[c].type, handle[c].id>> IN
    IF k \in TypeKey /\ load_task[k].pc \in {"load", "decode", "publish"}
    THEN [load_task EXCEPT ![k].pc = "aborted"]
    ELSE load_task

\* The load tasks after caller c dropped its handle: the JoinHandle of
\* tokio::spawn is dropped at once, so the tasks are detached, and no handle
\* type implements Drop.
TasksAfterDrop(c) == load_task

\* A caller drops its handle or future before it resolved.  The wakers it
\* registered stay where they are.
Drop(c) ==
    /\ cpc[c] \in {"run", "wait"}
    /\ cpc' = [cpc EXCEPT ![c] = "dropped"]
    /\ load_task' = TasksAfterDrop(c)
    /\ UNCHANGED <<asset_cache, path_cache, asset_lock, path_lock, decoded, find_task,
                   handle, opt, result, nreg, woke, counters, panicked>>
    /\ UNCHANGED outside

\* The steps of the spawned tasks.
TaskNext ==
    \/ \E k \in TypeKey : LoadSource(k)
    \/ \E k \in TypeKey : Decode(k)
    \/ \E k \in TypeKey : Publish(k)
    \/ \E pk \in PathKey : FindSource(pk)
    \/ \E pk \in PathKey : FindMissing(pk)
    \/ \E pk \in PathKey : FindLockPath(pk)
    \/ \E pk \in PathKey : FindLockId(pk)
    \/ \E pk \in PathKey : FindUnlock(pk)

\* Callers that load, poll for the id or the loaded asset, and drop.
NextDrop ==
    \/ \E c \in Callers, m \in {"id", "loaded"}, k \in RequestKeys : LoadId(c, m, k)
    \/ \E c \in Callers, m \in {"id", "loaded"}, pk \in RequestPaths : LoadPath(c, m, pk)
    \/ \E c \in Callers : LoadPathThenId(c)
    \/ \E c \in Callers : PollKnownId(c)
    \/ \E c \in Callers : PollSearching(c)
    \/ \E c \in Callers : PollAsset(c)
    \/ \E c \in Callers : PollTerminal(c)
    \/ \E c \in Callers : Drop(c)
    \/ \E k \in TypeKey : LoadSource(k)
    \/ \E k \in TypeKey : Decode(k)
    \/ \E k \in TypeKey : Publish(k)
    \/ \E pk \in PathKey : FindSource(pk)
    \/ \E pk \in PathKey : FindMissing(pk)
    \/ \E pk \in PathKey : FindLockPath(pk)
    \/ \E pk \in PathKey : FindLockId(pk)
    \/ \E pk \in PathKey : FindUnlock(pk)

\* The runtime polls a spawned task that can take a step; nothing is
\* assumed about the callers.
FairSpecDrop == Init /\ [][NextDrop]_vars /\ WF_vars(TaskNext)

LoadTaskRuns(k) == load_task[k].pc \in {"load", "decode", "publish"}
FindTaskRuns(pk) == find_task[pk].pc \in {"find", "found", "notfound", "locked_path", "locked_both"}
Dropped(c) == cpc[c] = "dropped"

\* A started task runs to its end and its entry leaves Unloaded, whatever
\* the callers do.
TasksRunToCompletion ==
    /\ \A k \in TypeKey :
        LoadTaskRuns(k) ~> (load_task[k].pc = "done" /\ AssetStateOf(k).st # "Unloaded")
    /\ \A pk \in PathKey :
        FindTaskRuns(pk) ~> (find_task[pk].pc = "done" /\ PathStateOf(pk).st # "Unloaded")

\* The drop itself touches no entry and no task.
DropLeavesTasks ==
    (\E c \in Callers : ~Dropped(c) /\ Dropped(c)') =>
        /\ asset_cache' = asset_cache
        /\ path_cache' = path_cache
        /\ load_task' = load_task
        /\ find_task' = find_task

\* Waking a waker a dropped future left behind: the step that drops the
\* list writes the entry as it would without that waker, and the dropped
\* future takes no step after it.
DroppedWakerIsInert ==
    \A c \in Callers : Dropped(c) =>
        /\ Dropped(c)'
        /\ handle'[c] = handle[c]
        /\ result'[c] = result[c]
        /\ nreg'[c] = nreg[c]
        /\ \A k \in TypeKey :
            (AssetStateOf(k).st = "Unloaded" /\ AssetStateOf(k)'.st # "Unloaded"
                /\ \E w \in Range(AssetStateOf(k).wakers) : w.c = c)
            => AssetStateOf(k)' = load_task[k].new_state

\* C22: dropping every handle and future for a key does not stop its task:
\* every find or load task that was started finishes and its entry leaves
\* Unloaded with no fairness assumed for the callers; a drop changes no
\* entry and no task; and the wakers of dropped futures, when woken, change
\* nothing.
C22_DropDoesNotCancel ==
    /\ TasksRunToCompletion
    /\ [][DropLeavesTasks]_vars
    /\ [][DroppedWakerIsInert]_vars

\* Every caller dropped its future after registering a waker, and the
\* tasks still finished and woke those wakers.
C22_Witness ==
    /\ \A c \in Callers : Dropped(c) /\ nreg[c] > 0
    /\ \A c \in Callers : \E w \in BagToSet(woke) : w.c = c
    /\ \E k \in TypeKey : load_task[k].pc = "done" /\ AssetStateOf(k).st # "Unloaded"
    /\ \E pk \in PathKey : find_task[pk].pc = "done" /\ PathStateOf(pk).st # "Unloaded"

\* A task is suspended when it awaits a source (load_asset, find_asset),
\* the decode future, or, inside a composite's decode, a child handle.
LoadTaskSuspended(k) == load_task[k].pc \in {"load", "decode", "fields"}
FindTaskSuspended(pk) == find_task[pk].pc = "find"
Holds(who) ==
    \/ \E s \in Shards : asset_lock[s] = who
    \/ \E s \in Shards : path_lock[s] = who

\* C23: no task holds a shard lock while it is suspended.  A lock that is
\* held is held by a find task between taking the path shard lock and the
\* end of the hand-off block, where nothing is awaited; a task that awaits
\* a source or a decode future holds no lock, nor does the find task on
\* whose behalf a load task runs.
C23_NoLockAcrossAwait ==
    /\ \A s \in Shards : asset_lock[s] # Free =>
        \E pk \in PathKey : asset_lock[s] = FindTask(pk) /\ find_task[pk].pc = "locked_both"
    /\ \A s \in Shards : path_lock[s] # Free =>
        \E pk \in PathKey : path_lock[s] = FindTask(pk)
                            /\ find_task[pk].pc \in {"locked_path", "locked_both"}
    /\ \A k \in TypeKey : LoadTaskSuspended(k) =>
        ~Holds(Spawned(k)) /\ ~Holds(load_task[k].by)
    /\ \A pk \in PathKey : FindTaskSuspended(pk) => ~Holds(FindTask(pk))

\* A load task that a find task started after its hand-off is suspended
\* in a source call, and every lock is free.
C23_Witness ==
    /\ \E k \in TypeKey, pk \in PathKey :
        /\ load_task[k].by = FindTask(pk)
        /\ load_task[k].pc = "load"
        /\ counters.load[1][k] = 0
    /\ \A s \in Shards : asset_lock[s] = Free /\ path_lock[s] = Free

\* ------------------------------------------------------------------------
\* One id and one path asked for under different asset types.

\* Mutant: the key is made of the id alone.
TypeKey_new_Untyped(t, i) == <<1, i>>

\* TypeKey::new::<A>(id) and PathKey::new::<A>(path): TypeId::of::<A>() is
\* part of the key, and eq_key compares it.
TypeKey_new(t, i) == <<t, i>>
PathKey_new(t, p) == <<t, p>>

\* The asset type caller c names in its calls.
RequestedType(c) == ((c - 1) % (NumTypes + 1)) + 1

\* The modes the callers of this scenario drive their handles with.
TypedModes == {"loaded"}

NextTypes ==
    \/ \E c \in Callers, m \in TypedModes, i \in Ids :
            LoadId(c, m, TypeKey_new(RequestedType(c), i))
    \/ \E c \in Callers, m \in TypedModes, p \in Paths :
            LoadPath(c, m, PathKey_new(RequestedType(c), p))
    \/ \E c \in Callers : PollSearching(c)
    \/ \E c \in Callers : PollAsset(c)
    \/ \E k \in TypeKey : LoadSource(k)
    \/ \E k \in TypeKey : Decode(k)
    \/ \E k \in TypeKey : Publish(k)
    \/ \E pk \in PathKey : FindSource(pk)
    \/ \E pk \in PathKey : FindMissing(pk)
    \/ \E pk \in PathKey : FindLockPath(pk)
    \/ \E pk \in PathKey : FindLockId(pk)
    \/ \E pk \in PathKey : FindUnlock(pk)

SpecTypes == Init /\ [][NextTypes]_vars

\* The asset types some entry or task of which a step changes.
ChangedTypes ==
    {t \in AssetTypes :
        \/ \E i \in AssetIds :
            \/ AssetStateOf(<<t, i>>)' # AssetStateOf(<<t, i>>)
            \/ load_task'[<<t, i>>] # load_task[<<t, i>>]
            \/ decoded'[<<t, i>>] # decoded[<<t, i>>]
        \/ \E p \in Paths :
            \/ PathStateOf(<<t, p>>)' # PathStateOf(<<t, p>>)
            \/ find_task'[<<t, p>>] # find_task[<<t, p>>]}

TypedEntries ==
    /\ \A c \in Callers : cpc[c] # "idle" =>
        /\ handle[c].type = RequestedType(c)
        /\ handle[c].id # 0 =>
            /\ AssetStateOf(<<handle[c].type, handle[c].id>>).st # "Vacant"
            /\ counters.load_tasks[<<handle[c].type, handle[c].id>>] = 1
        /\ handle[c].path # 0 =>
            /\ PathStateOf(<<handle[c].type, handle[c].path>>).st # "Vacant"
            /\ counters.find_tasks[<<handle[c].type, handle[c].path>>] = 1
    /\ \A k \in TypeKey : AssetStateOf(k).st # "Vacant" =>
        \E c \in Callers : cpc[c] # "idle" /\ RequestedType(c) = k[1]
    /\ \A pk \in PathKey : PathStateOf(pk).st # "Vacant" =>
        \E c \in Callers : cpc[c] # "idle" /\ RequestedType(c) = pk[1]

OneTypePerStep ==
    /\ Cardinality(ChangedTypes) <= 1
    /\ \A c \in Callers :
        (cpc'[c] # cpc[c] \/ handle'[c] # handle[c] \/ result'[c] # result[c])
            => ChangedTypes \subseteq {RequestedType(c)}

\* C24: an id or a path asked for under two asset types has two cache
\* entries, one per type, each with its own task and state: a caller's
\* handle refers to the entry of the type it named, that entry exists and
\* has had exactly one task, and a step that changes an entry or task of
\* one type changes no entry or task of another type and wakes or advances
\* no caller of another type.
C24_EntriesPerType == []TypedEntries /\ [][OneTypePerStep]_vars

\* One id under two types: the entry of one type is Loaded, reached by a
\* path, the entry of the other is Missing or Error; each had its own task.
C24_Witness ==
    \E i \in Ids, p \in Paths :
        /\ AssetStateOf(<<1, i>>).st = "Loaded"
        /\ PathStateOf(<<1, p>>) = LoadedPath(i)
        /\ AssetStateOf(<<2, i>>).st \in {"Missing", "Error"}
        /\ counters.load_tasks[<<1, i>>] = 1
        /\ counters.load_tasks[<<2, i>>] = 1
        /\ PathStateOf(<<2, p>>).st = "Vacant"

Stamped(e) == e.st \in {"Loaded", "Ready"}

\* The entry enters Loaded with the version the answering source gave and
\* with that source's index: the sources before it were asked once and
\* the sources after it never.
StampFromSource ==
    \A k \in TypeKey :
        (~Stamped(AssetStateOf(k)) /\ Stamped(AssetStateOf(k)')) =>
            /\ AssetStateOf(k)'.st = "Loaded"
            /\ AssetStateOf(k)'.version = load_task[k].new_state.version
            /\ AssetStateOf(k)'.source = load_task[k].src
            /\ \A s \in Sources :
                counters.load[s][k] = IF s <= load_task[k].src THEN 1 ELSE 0
StampAtAnswer ==
    \A k \in TypeKey :
        (load_task[k].pc = "load" /\ load_task'[k].pc = "decode") =>
            /\ load_task'[k].new_state.st = "Loaded"
            /\ load_task'[k].new_state.source = load_task[k].src
            /\ load_task'[k].src = load_task[k].src
StampKept ==
    \A k \in TypeKey :
        (Stamped(AssetStateOf(k)) /\ Stamped(AssetStateOf(k)')) =>
            /\ AssetStateOf(k)'.version = AssetStateOf(k).version
            /\ AssetStateOf(k)'.source = AssetStateOf(k).source
StampInFlight ==
    \A k \in TypeKey :
        (load_task[k].pc \in {"decode", "fields", "publish"}
            /\ load_task[k].new_state.st = "Loaded"
            /\ load_task'[k].new_state.st = "Loaded")
        => /\ load_task'[k].new_state.version = load_task[k].new_state.version
           /\ load_task'[k].new_state.source = load_task[k].new_state.source

\* C25: the version and source index of an id-entry are those of the
\* source that supplied the bytes; they are the same when the entry
\* enters Loaded, never change while the entry is Loaded or Ready, and the
\* step from Loaded to Ready copies them.
C25_StampPreserved ==
    /\ [][StampAtAnswer]_vars
    /\ [][StampInFlight]_vars
    /\ [][StampFromSource]_vars
    /\ [][StampKept]_vars

\* An entry is Ready with the version and the index of the last source,
\* which answered after the sources before it had nothing.
C25_Witness ==
    \E k \in TypeKey :
        /\ AssetStateOf(k).st = "Ready"
        /\ AssetStateOf(k).version = MaxVersion
        /\ AssetStateOf(k).source = NumSources
        /\ counters.build[k] = 1

\* ------------------------------------------------------------------------
\* LoaderBuilder.

MaxCpus == 2
MaxShardsArg == 520
MaxHash == 3
DEFAULT_SHARDS_PER_CPU == 8
ShardsCap == 512

\* LoaderBuilder::new(): num_shards = DEFAULT_SHARDS_PER_CPU * num_cpus.
LoaderBuilder_new(num_cpus) ==
    [num_shards |-> DEFAULT_SHARDS_PER_CPU * num_cpus, built |-> FALSE, shards |-> 0, index |-> 0]

\* set_num_shards / with_num_shards: the value is stored as given.
set_num_shards(n) ==
    /\ ~builder.built
    /\ builder' = [builder EXCEPT !.num_shards = n]
    /\ UNCHANGED <<loader_vars, id_text, idgen, store, dylib>>

\* LoaderBuilder::build: (0..self.num_shards).map(..).collect() for each of
\* the two tables.
LoaderBuilder_build ==
    /\ ~builder.built
    /\ builder' = [builder EXCEPT !.built = TRUE, !.shards = builder.num_shards]
    /\ UNCHANGED <<loader_vars, id_text, idgen, store, dylib>>

\* `key_hash as usize % self.asset_cache.len()` in load_with_id and load:
\* the remainder by zero panics.
select_shard(key_hash) ==
    /\ builder.built
    /\ IF builder.shards = 0
       THEN /\ panicked' = panicked \cup {"rem_by_zero"}
            /\ UNCHANGED builder
       ELSE /\ builder' = [builder EXCEPT !.index = key_hash % builder.shards]
            /\ UNCHANGED panicked
    /\ UNCHANGED <<asset_cache, path_cache, asset_lock, path_lock, decoded, load_task,
                   find_task, handle, cpc, opt, result, nreg, woke, counters,
                   id_text, idgen, store, dylib>>

InitBuilder ==
    /\ asset_cache = [s \in Shards |-> [k \in TypeKey |-> VacantAsset]]
    /\ path_cache = [s \in Shards |-> [pk \in PathKey |-> VacantPath]]
    /\ asset_lock = [s \in Shards |-> Free]
    /\ path_lock = [s \in Shards |-> Free]
    /\ decoded = [k \in TypeKey |-> NoCell]
    /\ load_task = [k \in TypeKey |-> NoLoadTask]
    /\ find_task = [pk \in PathKey |-> NoFindTask]
    /\ handle = [c \in Callers |-> NoHandle]
    /\ cpc = [c \in Callers |-> "idle"]
    /\ opt = [c \in Callers |-> NoVal]
    /\ result = [c \in Callers |-> NoResult]
    /\ nreg = [c \in Callers |-> 0]
    /\ woke = EmptyBag
    /\ counters = [load |-> [s \in Sources |-> [k \in TypeKey |-> 0]],
                   find |-> [s \in Sources |-> [pk \in PathKey |-> 0]],
                   decode |-> [k \in TypeKey |-> 0],
                   build |-> [k \in TypeKey |-> 0],
                   load_tasks |-> [k \in TypeKey |-> 0],
                   find_tasks |-> [pk \in PathKey |-> 0]]
    /\ panicked = {}
    /\ idgen = NoIdGen /\ store = NoStore /\ dylib = NoDylib
    /\ \E num_cpus \in 1..MaxCpus : builder = LoaderBuilder_new(num_cpus)
    /\ id_text = NoText

NextBuilder ==
    \/ \E n \in 0..MaxShardsArg : set_num_shards(n)
    \/ LoaderBuilder_build
    \/ \E key_hash \in 0..MaxHash : select_shard(key_hash)

SpecBuilder == InitBuilder /\ [][NextBuilder]_vars

RECURSIVE NextPowerOfTwo(_, _)
NextPowerOfTwo(n, p) == IF p >= n THEN p ELSE NextPowerOfTwo(n, 2 * p)
IsPowerOfTwo(n) == n >= 1 /\ NextPowerOfTwo(n, 1) = n
Min(a, b) == IF a <= b THEN a ELSE b

\* C26: the tables of a built Loader have the builder's value rounded up to
\* the next power of two and capped at 512 as their number of shards: a
\* power of two between 1 and 512, so that `hash mod N` is defined.
C26_ShardsPowerOfTwo ==
    /\ builder.built =>
        /\ builder.shards = Min(ShardsCap, NextPowerOfTwo(builder.num_shards, 1))
        /\ IsPowerOfTwo(builder.shards)
        /\ builder.shards \in 1..ShardsCap
    /\ "rem_by_zero" \notin panicked

\* What does hold: the tables have exactly as many shards as the builder
\* was given.
ShardsAsGiven == builder.built => builder.shards = builder.num_shards

\* ------------------------------------------------------------------------
\* AssetId: the human-readable form and FromStr.

\* A u64 is kept as four 16-bit limbs, most significant first.  The ids
\* under test are made of the first NumLimbSamples of these limb values.
NumLimbSamples == 4
LimbSeq == <<0, 65535, 43981, 1, 255, 4096, 2748>>
LimbSamples == {LimbSeq[i] : i \in 1..NumLimbSamples}
U64Samples == LimbSamples \X LimbSamples \X LimbSamples \X LimbSamples
ZeroU64 == <<0, 0, 0, 0>>

LowerDigits == <<"0", "1", "2", "3", "4", "5", "6", "7", "8", "9", "a", "b", "c", "d", "e", "f">>
UpperDigits == <<"0", "1", "2", "3", "4", "5", "6", "7", "8", "9", "A", "B", "C", "D", "E", "F">>

\* The i-th hex digit of v, counted from the most significant.
Nibble(v, i) == (v[((i - 1) \div 4) + 1] \div (16 ^ (3 - ((i - 1) % 4)))) % 16

\* LowerHex::fmt of a u64: the digits from the first non-zero one on, "0"
\* for zero.
LowerHex_fmt(v) ==
    LET first == IF \E i \in 1..16 : Nibble(v, i) # 0
                 THEN CHOOSE i \in 1..16 :
                        Nibble(v, i) # 0 /\ \A j \in 1..(i - 1) : Nibble(v, j) = 0
                 ELSE 16
    IN [j \in 1..(17 - first) |-> LowerDigits[Nibble(v, first + j - 1) + 1]]

\* The `0` flag with a width: zeros are put in front up to the width.
RECURSIVE PadZero(_, _)
PadZero(s, width) == IF Len(s) >= width THEN s ELSE PadZero(<<"0">> \o s, width)

\* Serialize for AssetId, human-readable: write!(cursor over [0u8; 16],
\* "{:016x}", self.0).
serialize(v) == PadZero(LowerHex_fmt(v), 16)

\* Mutant: only the lower-case digits are digits.
to_digit_LowerOnly(ch) ==
    IF \E d \in 1..16 : LowerDigits[d] = ch
    THEN (CHOOSE d \in 1..16 : LowerDigits[d] = ch) - 1
    ELSE -1

\* char::to_digit(16): -1 stands for None.
to_digit(ch) ==
    IF \E d \in 1..16 : LowerDigits[d] = ch \/ UpperDigits[d] = ch
    THEN (CHOOSE d \in 1..16 : LowerDigits[d] = ch \/ UpperDigits[d] = ch) - 1
    ELSE -1

\* acc * 16 + d on the limbs; the multiplication overflows when the top
\* hex digit of acc is not zero.
MulAdd16(acc, d) ==
    <<(acc[1] % 4096) * 16 + (acc[2] \div 4096),
      (acc[2] % 4096) * 16 + (acc[3] \div 4096),
      (acc[3] % 4096) * 16 + (acc[4] \div 4096),
      (acc[4] % 4096) * 16 + d>>

RECURSIVE Accumulate(_, _)
Accumulate(digits, acc) ==
    IF digits = <<>> THEN <<"ok", acc>>
    ELSE IF to_digit(Head(digits)) = -1 THEN <<"err", "InvalidDigit">>
    ELSE IF acc[1] >= 4096 THEN <<"err", "PosOverflow">>
    ELSE Accumulate(Tail(digits), MulAdd16(acc, to_digit(Head(digits))))

\* u64::from_str_radix(s, 16): an empty string and a lone sign are errors,
\* a leading "+" is skipped.
from_str_radix(s) ==
    IF s = <<>> THEN <<"err", "Empty">>
    ELSE IF s = <<"+">> \/ s = <<"-">> THEN <<"err", "InvalidDigit">>
    ELSE IF Head(s) = "+" THEN Accumulate(Tail(s), ZeroU64)
    ELSE Accumulate(s, ZeroU64)

\* FromStr for AssetId.
from_str(s) ==
    LET value == from_str_radix(s) IN
    IF value[1] = "err" THEN <<"err", "ParseIntError">>
    ELSE IF value[2] = ZeroU64 THEN <<"err", "ZeroId">>
    ELSE <<"ok", value[2]>>

to_ascii_uppercase(s) ==
    [i \in 1..Len(s) |->
        IF \E d \in 1..16 : LowerDigits[d] = s[i]
        THEN UpperDigits[CHOOSE d \in 1..16 : LowerDigits[d] = s[i]]
        ELSE s[i]]

\* Strings given to the parser that no serializer wrote.
Zeros(n) == [i \in 1..n |-> "0"]
TextSamples == {Zeros(1), Zeros(2), Zeros(16), Zeros(17), <<>>, <<"+", "0">>}

Serialize ==
    /\ id_text.stage = "id"
    /\ id_text' = [id_text EXCEPT !.stage = "hex", !.hex = serialize(id_text.id)]
    /\ UNCHANGED <<loader_vars, builder, idgen, store, dylib>>

\* The text is put in upper case before it is read back.
ToUpper ==
    /\ id_text.stage = "hex"
    /\ id_text' = [id_text EXCEPT !.stage = "upper", !.hex = to_ascii_uppercase(id_text.hex)]
    /\ UNCHANGED <<loader_vars, builder, idgen, store, dylib>>

FromStr ==
    /\ id_text.stage \in {"hex", "upper", "text"}
    /\ id_text' = [id_text EXCEPT !.stage = "parsed", !.parsed = from_str(id_text.hex)]
    /\ UNCHANGED <<loader_vars, builder, idgen, store, dylib>>

InitId ==
    /\ asset_cache = [s \in Shards |-> [k \in TypeKey |-> VacantAsset]]
    /\ path_cache = [s \in Shards |-> [pk \in PathKey |-> VacantPath]]
    /\ asset_lock = [s \in Shards |-> Free]
    /\ path_lock = [s \in Shards |-> Free]
    /\ decoded = [k \in TypeKey |-> NoCell]
    /\ load_task = [k \in TypeKey |-> NoLoadTask]
    /\ find_task = [pk \in PathKey |-> NoFindTask]
    /\ handle = [c \in Callers |-> NoHandle]
    /\ cpc = [c \in Callers |-> "idle"]
    /\ opt = [c \in Callers |-> NoVal]
    /\ result = [c \in Callers |-> NoResult]
    /\ nreg = [c \in Callers |-> 0]
    /\ woke = EmptyBag
    /\ counters = [load |-> [s \in Sources |-> [k \in TypeKey |-> 0]],
                   find |-> [s \in Sources |-> [pk \in PathKey |-> 0]],
                   decode |-> [k \in TypeKey |-> 0],
                   build |-> [k \in TypeKey |-> 0],
                   load_tasks |-> [k \in TypeKey |-> 0],
                   find_tasks |-> [pk \in PathKey |-> 0]]
    /\ panicked = {}
    /\ idgen = NoIdGen /\ store = NoStore /\ dylib = NoDylib
    /\ builder = BuiltLoader(NumShards, NumShards)
    /\ \/ \E v \in U64Samples \ {ZeroU64} :
            id_text = [stage |-> "id", id |-> v, hex |-> <<>>, parsed |-> <<"none">>]
       \/ \E s \in TextSamples :
            id_text = [stage |-> "text", id |-> <<>>, hex |-> s, parsed |-> <<"none">>]

NextId == Serialize \/ ToUpper \/ FromStr

SpecId == InitId /\ [][NextId]_vars

IsLowerHex(s) == \A i \in 1..Len(s) : \E d \in 1..16 : LowerDigits[d] = s[i]
ValueIsZero(s) == s # <<>> /\ \A i \in 1..Len(s) : s[i] = "0"

\* C27: the human-readable form of a non-zero id is exactly 16 lower-case
\* hex digits; parsing it, as written or in upper case, gives the id back;
\* and a string of zeros is rejected as the zero id.
C27_HexRoundTrip ==
    /\ id_text.stage = "hex" => Len(id_text.hex) = 16 /\ IsLowerHex(id_text.hex)
    /\ id_text.stage = "upper" => Len(id_text.hex) = 16
    /\ (id_text.stage = "parsed" /\ id_text.id # <<>>) => id_text.parsed = <<"ok", id_text.id>>
    /\ (id_text.stage = "parsed" /\ ValueIsZero(id_text.hex))
            => id_text.parsed = <<"err", "ZeroId">>

\* An id with leading zero digits and with letters was written, put in
\* upper case and read back.
C27_Witness ==
    /\ id_text.stage = "parsed"
    /\ id_text.id = <<0, 1, 43981, 65535>>
    /\ id_text.hex = <<"0", "0", "0", "0", "0", "0", "0", "1", "A", "B", "C", "D", "F", "F", "F", "F">>
    /\ id_text.parsed = <<"ok", id_text.id>>

LeavesUnloadedByOwnTask ==
    /\ \A k \in TypeKey :
        (AssetStateOf(k).st = "Unloaded" /\ AssetStateOf(k)'.st # "Unloaded") =>
            /\ load_task[k].pc = "publish"
            /\ load_task'[k].pc = "done"
            /\ AssetStateOf(k)' = load_task[k].new_state
    /\ \A pk \in PathKey :
        (PathStateOf(pk).st = "Unloaded" /\ PathStateOf(pk)'.st # "Unloaded") =>
            /\ find_task[pk].pc \in {"found", "notfound"}
            /\ find_task'[pk].pc \in {"locked_path", "done"}
TaskFindsEntryUnloaded ==
    /\ \A k \in TypeKey :
        load_task[k].pc \in {"load", "decode", "fields", "publish"} =>
            AssetStateOf(k).st = "Unloaded"
    /\ \A pk \in PathKey :
        find_task[pk].pc \in {"find", "found", "notfound"} =>
            PathStateOf(pk).st = "Unloaded"
    /\ panicked \cap {"load_asset_task", "find_asset_task"} = {}

\* C28: an id-entry leaves Unloaded only in the publishing step of the
\* load task created for it, and a path entry only in a step of its find
\* task; until then the task's entry is present and Unloaded, so the
\* unreachable!("No other code could change the state") branches are not
\* reached.
C28_OnlyOwnTaskAdvances == []TaskFindsEntryUnloaded /\ [][LeavesUnloadedByOwnTask]_vars

\* A load task run by a find task and the find task of another request
\* have both finished after callers polled the entries meanwhile.
C28_Witness ==
    /\ \E k \in TypeKey, pk \in PathKey :
        /\ load_task[k].pc = "done"
        /\ load_task[k].by = FindTask(pk)
        /\ find_task[pk].pc = "done"
        /\ AssetStateOf(k).st \in {"Loaded", "Missing", "Error"}
        /\ PathStateOf(pk) = LoadedPath(k[2])
    /\ \A c \in Callers : nreg[c] > 0

\* Caller c took the cell lock and found the decoded value gone.
FoundCellEmpty(c) == cpc[c] = "build_publish" /\ opt[c] = NoVal
EntryOf(c) == AssetStateOf(<<handle[c].type, handle[c].id>>)

SecondBuilderSeesOutcome ==
    /\ \A c \in Callers : FoundCellEmpty(c) => EntryOf(c).st \in {"Ready", "Error"}
    /\ "build_unreachable" \notin panicked
SecondBuilderReturnsStored ==
    \A c \in Callers :
        (FoundCellEmpty(c) /\ cpc'[c] # "build_publish") =>
            /\ cpc'[c] = "done"
            /\ result'[c] = IF EntryOf(c).st = "Ready"
                            THEN OkResult(EntryOf(c).val) ELSE ErrResult(EntryOf(c).val)
            /\ EntryOf(c)' = EntryOf(c)
            /\ counters'.build = counters.build

\* C29: of two callers that race to build one Loaded entry, the one that
\* finds the decoded cell empty sees the entry Ready or Error, never Loaded,
\* when it has the shard lock again; it returns the asset or the error the
\* entry holds, builds nothing and leaves the entry as it is.
C29_SecondBuilderSeesResult == []SecondBuilderSeesOutcome /\ [][SecondBuilderReturnsStored]_vars

\* A caller holds the cell lock, found the cell empty, and the entry is
\* Ready with the asset the other caller built and returned.
C29_Witness ==
    \E c, d \in Callers :
        /\ c # d
        /\ FoundCellEmpty(d)
        /\ decoded[<<handle[d].type, handle[d].id>>] = [content |-> "None", lock |-> d]
        /\ EntryOf(d).st = "Ready"
        /\ cpc[c] = "done"
        /\ result[c] = OkResult(EntryOf(d).val)
        /\ EntryOf(d).val = Asset(c)

BuildFailed(e) == e.st = "Error" /\ e.val.kind = "build_error"
OnEntry(c, k) == cpc[c] # "idle" /\ handle[c].type = k[1] /\ handle[c].id = k[2]

\* The step in which a builder that holds a build error publishes it.
FailedBuildPublished ==
    \A c \in Callers :
        (cpc[c] = "build_publish" /\ opt[c].kind = "build_error" /\ cpc'[c] # "build_publish") =>
            /\ EntryOf(c).st = "Loaded"
            /\ EntryOf(c)' = ErrorAsset(opt[c])
            /\ result'[c] = ErrResult(opt[c])
            /\ woke' = woke (+) SeqBag(EntryOf(c).wakers)
            /\ \A w \in Range(EntryOf(c).wakers) : w.st = "Loaded" /\ cpc'[w.c] # "wait"
BuildErrorKept ==
    \A k \in TypeKey :
        BuildFailed(AssetStateOf(k)) =>
            /\ AssetStateOf(k)' = AssetStateOf(k)
            /\ counters'.build[k] = counters.build[k]
BuildErrorReturned ==
    \A k \in TypeKey :
        BuildFailed(AssetStateOf(k)) =>
            /\ counters.build[k] = 1
            /\ \A c \in Callers :
                (OnEntry(c, k) /\ cpc[c] \in {"done", "repolled"} /\ handle[c].mode # "id")
                    => result[c] = ErrResult(AssetStateOf(k).val)

\* C30: when the build function fails the entry goes from Loaded to Error
\* with that build error and the wakers registered on the Loaded state are
\* woken; afterwards the entry never changes, nothing is built again, and
\* every caller that finishes poll_build, build or ready on the entry has
\* that same error.
C30_BuildErrorMemoised ==
    /\ [][FailedBuildPublished]_vars
    /\ [][BuildErrorKept]_vars
    /\ []BuildErrorReturned

\* One caller's build failed; the other waited for Ready on the Loaded
\* entry, was woken and got the same error.
C30_Witness ==
    \E c, d \in Callers :
        /\ c # d
        /\ cpc[c] = "done" /\ handle[c].id # 0
        /\ AssetStateOf(<<handle[c].type, handle[c].id>>) = ErrorAsset(BuildError(c))
        /\ OnEntry(d, <<handle[c].type, handle[c].id>>)
        /\ handle[d].mode = "ready"
        /\ cpc[d] = "done"
        /\ result[d] = ErrResult(BuildError(c))
        /\ \E w \in BagToSet(woke) : w.c = d /\ w.st = "Loaded"

\* ------------------------------------------------------------------------
\* Handle::build and the shard locks.

\* Caller c is inside the Loaded arm of Handle::build: past the first
\* `drop(locked_shard)`, before the second critical section has ended.
InBuildArm(c) == cpc[c] \in {"build_cell", "build_publish"}
HoldsShard(c) ==
    \E s \in Shards : asset_lock[s] = Builder(c) \/ path_lock[s] = Builder(c)
\* The step in which build_fn runs on the decoded cell for caller c.
BuildFnRuns(c) == cpc[c] = "build_cell" /\ cpc'[c] = "build_publish"

\* A builder holds no shard lock from the moment it leaves the first
\* critical section to the moment it enters the second one.
NoShardLockInBuildArm == \A c \in Callers : InBuildArm(c) => ~HoldsShard(c)

\* build_fn needs no shard: it runs whenever the cell lock is free, also
\* while another task holds the shard of the entry being built.
BuildNeedsNoShard ==
    \A c \in Callers :
        (cpc[c] = "build_cell" /\ decoded[<<handle[c].type, handle[c].id>>].lock = 0)
            => ENABLED BuildCell(c)

\* The step that runs build_fn takes no shard lock, releases none and
\* writes no entry; the entry is written by the later step that locks the
\* shard again, and only to Ready or Error.
BuildStepLeavesShards ==
    \A c \in Callers :
        BuildFnRuns(c) =>
            /\ ~HoldsShard(c)
            /\ UNCHANGED <<asset_lock, path_lock, asset_cache, path_cache>>
ReacquiredOnlyToPublish ==
    \A c \in Callers :
        (cpc[c] = "build_publish" /\ cpc'[c] # "build_publish") =>
            LET k == <<handle[c].type, handle[c].id>>
                s == handle[c].shard
            IN  /\ asset_lock[s] = Free
                /\ UNCHANGED <<asset_lock, path_lock>>
                /\ \/ asset_cache' = asset_cache
                   \/ /\ asset_cache[s][k].st = "Loaded"
                      /\ asset_cache'[s][k].st \in {"Ready", "Error"}
                      /\ \A s2 \in Shards, k2 \in TypeKey :
                            <<s2, k2>> # <<s, k>> => asset_cache'[s2][k2] = asset_cache[s2][k2]

\* C31: no shard lock is held while the asset's build function runs: the
\* builder releases the id shard lock before it locks the decoded cell and
\* calls build, and locks the shard again only to publish Ready or Error.
C31_NoShardLockDuringBuild ==
    /\ [](NoShardLockInBuildArm /\ BuildNeedsNoShard)
    /\ [][BuildStepLeavesShards /\ ReacquiredOnlyToPublish]_vars

\* build_fn has run for a caller while a find task was holding the shard of
\* the entry being built.
C31_Witness ==
    \E c \in Callers, pk \in PathKey :
        /\ cpc[c] = "build_publish"
        /\ opt[c] # NoVal
        /\ asset_lock[handle[c].shard] = FindTask(pk)

\* ------------------------------------------------------------------------
\* Handles and the entries they refer to.

HandlePathEntry(c) == path_cache[handle[c].shard][<<handle[c].type, handle[c].path>>]
HandleIdEntry(c) == asset_cache[handle[c].shard][<<handle[c].type, handle[c].id>>]

\* A Searching handle refers to a path entry that exists; a Loading or
\* Loaded handle refers to an id-entry that exists.
SearchingHasPathEntry ==
    \A c \in Callers : handle[c].state = "Searching" => HandlePathEntry(c).st # "Vacant"
LoadingHasIdEntry ==
    \A c \in Callers :
        handle[c].state \in {"Loading", "Loaded"} => HandleIdEntry(c).st # "Vacant"

\* A path entry that can be observed (its shard is unlocked) as
\* Loaded { id } has its id-entry in place.
ObservedLoadedHasIdEntry ==
    \A pk \in PathKey :
        LET e == path_cache[PathShardOf(pk)][pk]
            k == <<pk[1], e.id>>
        IN  (path_lock[PathShardOf(pk)] = Free /\ e.st = "Loaded")
                => asset_cache[AssetShardOf(k)][k].st # "Vacant"

\* C32: a handle poll never finds its entry vacant, whatever the
\* interleaving of the spawned task and the requester's polls: Searching
\* handles refer to an existing path entry, Loading and Loaded handles to
\* an existing id-entry, and a path entry observed as Loaded { id } has its
\* id-entry already.
C32_EntryNeverVacant ==
    /\ SearchingHasPathEntry
    /\ LoadingHasIdEntry
    /\ ObservedLoadedHasIdEntry
    /\ panicked \cap {"poll_path_vacant", "poll_asset_vacant"} = {}

\* A handle that waited on the path entry has seen it Loaded { id } and
\* refers to the id-entry now, while that entry's load task has not
\* made its first source call.
C32_Witness ==
    \E c \in Callers :
        /\ handle[c].path # 0
        /\ handle[c].state = "Loading"
        /\ nreg[c] > 0
        /\ load_task[<<handle[c].type, handle[c].id>>].pc = "load"
        /\ counters.load[1][<<handle[c].type, handle[c].id>>] = 0

\* ------------------------------------------------------------------------
\* debug_assert!(self.id.is_some()) in Handle::poll.

\* Handle::poll is about to run on caller c's handle, or can be called on
\* it again, and will take the arm of the states other than Searching.
PollsNonSearching(c) ==
    \/ cpc[c] = "run" /\ handle[c].state \notin {"None", "Searching"}
                      /\ ~(handle[c].mode = "id" /\ handle[c].id # 0)
    \/ ENABLED Repoll(c) /\ ~CachesResult(handle[c].mode)

\* C33: whenever Handle::poll runs on a handle whose state is not
\* Searching the handle's id is known, so the debug assertion holds; this
\* includes handles load-by-path returned for a Missing path entry and
\* handles that went from Searching to Missing in an earlier poll.
C33_IdKnownWhenPolled ==
    /\ \A c \in Callers : PollsNonSearching(c) => handle[c].id # 0
    /\ "debug_assert_id" \notin panicked

\* What the code does guarantee: the id is unknown only on a by-path
\* handle that is Missing, and every other handle that is polled outside
\* Searching knows its id.
IdUnknownOnlyIfMissingByPath ==
    \A c \in Callers :
        (PollsNonSearching(c) /\ handle[c].id = 0)
            => handle[c].state = "Missing" /\ handle[c].path # 0

\* ------------------------------------------------------------------------
\* Progress of tasks and awaiters.

\* What a task that awaits id() or loaded() does when the executor polls it.
PollNext ==
    \/ \E c \in Callers : LoadPathThenId(c)
    \/ \E c \in Callers : PollKnownId(c)
    \/ \E c \in Callers : PollSearching(c)
    \/ \E c \in Callers : PollAsset(c)
    \/ \E c \in Callers : PollTerminal(c)

\* Callers that load and await id() or loaded(); the find and load tasks.
NextLive ==
    \/ \E c \in Callers, m \in {"id", "loaded"}, k \in RequestKeys : LoadId(c, m, k)
    \/ \E c \in Callers, m \in {"id", "loaded"}, pk \in RequestPaths : LoadPath(c, m, pk)
    \/ \E c \in Callers : LoadPathThenId(c)
    \/ \E c \in Callers : PollKnownId(c)
    \/ \E c \in Callers : PollSearching(c)
    \/ \E c \in Callers : PollAsset(c)
    \/ \E c \in Callers : PollTerminal(c)
    \/ \E k \in TypeKey : LoadSource(k)
    \/ \E k \in TypeKey : Decode(k)
    \/ \E k \in TypeKey : Publish(k)
    \/ \E pk \in PathKey : FindSource(pk)
    \/ \E pk \in PathKey : FindMissing(pk)
    \/ \E pk \in PathKey : FindLockPath(pk)
    \/ \E pk \in PathKey : FindLockId(pk)
    \/ \E pk \in PathKey : FindUnlock(pk)

\* The spawner runs every spawned task that can take a step (source calls
\* and decode return), and the executor polls again every task that is
\* runnable: one that was never told to wait or one whose waker was woken.
FairSpecLive == Init /\ [][NextLive]_vars /\ WF_vars(TaskNext) /\ WF_vars(PollNext)

\* The registration caller c is waiting on, and the state of its entry.
WaitingWaker(c) == {w \in ListedWakers : w.c = c /\ w.n = nreg[c]}
WakerEntrySt(w) == IF w.tab = "path" THEN PathStateOf(w.key).st ELSE AssetStateOf(w.key).st
Settled(c) == cpc[c] \in {"done", "loaded"}
\* The one other way an await ends: debug_assert!(self.id.is_some()) on a
\* by-path handle that load returned as Missing.
AssertEnded(c) ==
    cpc[c] = "panicked" /\ handle[c].state = "Missing" /\ handle[c].id = 0

\* A task that was told to wait has its waker on a list of an entry that is
\* still in the state the task waits on.
WaitingIsRegistered ==
    \A c \in Callers :
        cpc[c] = "wait" =>
            /\ WaitingWaker(c) # {}
            /\ \A w \in WaitingWaker(c) : WakerEntrySt(w) = "Unloaded"

\* A waiting task becomes runnable in the very step that changes the state
\* it waits on.
WokenByChange ==
    \A c \in Callers :
        (cpc[c] = "wait" /\ cpc'[c] # "wait") =>
            /\ cpc'[c] = "run"
            /\ \A w \in WaitingWaker(c) :
                IF w.tab = "path" THEN PathStateOf(w.key)'.st # "Unloaded"
                ELSE AssetStateOf(w.key)'.st # "Unloaded"

EntriesLeaveUnloaded ==
    /\ \A k \in TypeKey :
        (AssetStateOf(k).st = "Unloaded") ~> (AssetStateOf(k).st # "Unloaded")
    /\ \A pk \in PathKey :
        (PathStateOf(pk).st = "Unloaded") ~> (PathStateOf(pk).st # "Unloaded")
WaitersComplete ==
    \A c \in Callers : (cpc[c] = "wait") ~> Settled(c)
AwaitersEnd ==
    \A c \in Callers : (cpc[c] # "idle") ~> (Settled(c) \/ AssertEnded(c))

HoldsPathShard(a) == \E s \in Shards : path_lock[s] = a
HoldsIdShard(a) == \E s \in Shards : asset_lock[s] = a
HoldsCell(c) == \E k \in TypeKey : decoded[k].lock = c

\* A held lock belongs to a find task inside its hand-off block or to a
\* builder between `decode.lock()` and `drop(lock)`.
HoldersAreInsideBlocks ==
    /\ \A s \in Shards :
        /\ path_lock[s] # Free =>
            \E pk \in PathKey : /\ path_lock[s] = FindTask(pk)
                                /\ find_task[pk].pc \in {"locked_path", "locked_both"}
        /\ asset_lock[s] # Free =>
            \E pk \in PathKey : /\ asset_lock[s] = FindTask(pk)
                                /\ find_task[pk].pc = "locked_both"
                                /\ HoldsPathShard(FindTask(pk))
    /\ \A k \in TypeKey :
        decoded[k].lock # 0 =>
            /\ cpc[decoded[k].lock] = "build_publish"
            /\ ~HoldsIdShard(Builder(decoded[k].lock))
            /\ ~HoldsPathShard(Builder(decoded[k].lock))

\* Whoever holds an id shard lock waits for nothing; whoever holds a path
\* shard lock or a decoded cell waits at most for an id shard lock.
IdShardHolderCanStep ==
    \A pk \in PathKey : find_task[pk].pc = "locked_both" => ENABLED FindUnlock(pk)
OthersWaitForIdShardOnly ==
    /\ \A pk \in PathKey :
        (find_task[pk].pc = "locked_path"
            /\ asset_lock[AssetShardOf(<<pk[1], find_task[pk].id>>)] = Free)
                => ENABLED FindLockId(pk)
    /\ \A c \in Callers :
        (cpc[c] = "build_publish" /\ asset_lock[handle[c].shard] = Free)
            => ENABLED BuildPublish(c)

\* The step that takes a lock, by what its taker holds already: a path
\* shard or a decoded cell is taken with no lock in hand, an id shard with
\* at most the path shard or the cell.
NestedInOrder ==
    /\ \A s \in Shards :
        (path_lock[s] = Free /\ path_lock'[s] # Free) =>
            /\ ~HoldsIdShard(path_lock'[s])
            /\ ~HoldsPathShard(path_lock'[s])
    /\ \A k \in TypeKey :
        (decoded[k].lock = 0 /\ decoded'[k].lock # 0) =>
            /\ ~HoldsIdShard(Builder(decoded'[k].lock))
            /\ ~HoldsPathShard(Builder(decoded'[k].lock))
            /\ ~HoldsCell(decoded'[k].lock)
    /\ \A s \in Shards :
        (asset_lock[s] = Free /\ asset_lock'[s] # Free) => ~HoldsIdShard(asset_lock'[s])

MaxSecs == 1
NumInstants == 2
NumSeedSamples == 2
MaxSleeps == 2
MaxRecorded == 2

STARTING_EPOCH == 1672520400
MAX_COUNTER == 1024

\* SystemTime: whole seconds since the Unix epoch and the instant within
\* the second.  The clock may show any of these at any call, also an
\* earlier one than before and one before the starting epoch.
ClockTimes ==
    {<<s, n>> : s \in (STARTING_EPOCH - 1)..(STARTING_EPOCH + MaxSecs),
                n \in 0..(NumInstants - 1)}
\* Ord::max on SystemTime.
TimeMax(a, b) ==
    IF a[1] > b[1] \/ (a[1] = b[1] /\ a[2] >= b[2]) THEN a ELSE b
\* duration_since(UNIX_EPOCH).as_secs().
as_secs(t) == t[1]

\* rand::random::<u32>().
SeedSeq == <<4194304, 3, 2, 4194303>>
SeedSamples == {SeedSeq[i] : i \in 1..NumSeedSamples}

\* Bitwise or of two naturals.
RECURSIVE BitOr(_, _)
BitOr(a, b) ==
    IF a = 0 THEN b
    ELSE IF b = 0 THEN a
    ELSE 2 * BitOr(a \div 2, b \div 2) + (IF a % 2 = 1 \/ b % 2 = 1 THEN 1 ELSE 0)

\* (counter as u64) << 32, as what it puts into bits 32..41 and into the
\* bits from 42 up.
CounterBits(counter) == [top |-> counter \div 1024, mid |-> counter % 1024]

\* (seed as u64) << 42 | (counter as u64) << 32 | seconds, as the three bit
\* fields of the u64: bits 42..63, bits 32..41 and bits 0..31.  The shift
\* drops the upper 10 bits of the u32 seed; seconds stay below 2^32 here.
compose_id(seed, counter, seconds) ==
    [top |-> BitOr(seed % (2 ^ 22), CounterBits(counter).top),
     mid |-> CounterBits(counter).mid,
     low |-> seconds]
ZeroId == [top |-> 0, mid |-> 0, low |-> 0]

\* What a call returned: the id and the counter and seconds it was made of.
NoRet == [id |-> ZeroId, counter |-> 0, seconds |-> 0]

\* IdGen::new.
IdGen_new(seed) ==
    [pc |-> "idle", last_st |-> <<STARTING_EPOCH, 0>>, counter |-> 1, seed |-> seed,
     st |-> <<0, 0>>, sleeps |-> 0, ret |-> NoRet, fresh |-> TRUE, recorded |-> {},
     panicked |-> {}]

\* new_id up to the loop: the clock is read, the state locked and
\* st = st.max(state.last_st).
new_id_enter(now) ==
    /\ idgen.pc = "idle"
    /\ idgen' = [idgen EXCEPT !.pc = "loop", !.st = TimeMax(now, idgen.last_st),
                              !.sleeps = 0]
    /\ UNCHANGED <<loader_vars, builder, id_text, store, dylib>>

\* `st == state.last_st`: equality of SystemTime.
SameInstant(a, b) == a = b

\* `st` after `std::thread::sleep(..); continue;`: it is not assigned in
\* the loop.
TimeAfterSleep(st) == st

\* The id is made and returned.  `fresh` tells whether it differs from the
\* remembered ids of earlier calls; the first MaxRecorded ids are remembered.
new_id_return(g) ==
    LET seconds == as_secs(g.st) - STARTING_EPOCH
        id == compose_id(g.seed, g.counter, seconds)
    IN  [g EXCEPT !.pc = "idle",
                  !.ret = [id |-> id, counter |-> g.counter, seconds |-> seconds],
                  !.fresh = id \notin g.recorded,
                  !.recorded = IF Cardinality(@) < MaxRecorded THEN @ \cup {id} ELSE @,
                  !.panicked = IF id = ZeroId THEN @ \cup {"zero_id"} ELSE @]

\* One turn of the loop of new_id.
new_id_loop ==
    /\ idgen.pc = "loop"
    /\ idgen' =
        IF SameInstant(idgen.st, idgen.last_st)
        THEN IF idgen.counter >= MAX_COUNTER
             THEN [idgen EXCEPT !.sleeps = IF @ < MaxSleeps THEN @ + 1 ELSE @,
                                !.st = TimeAfterSleep(@)]
             ELSE new_id_return([idgen EXCEPT
                        !.counter = @ + 1,
                        !.panicked = IF idgen.counter > MAX_COUNTER
                                     THEN @ \cup {"counter_assert"} ELSE @])
        ELSE new_id_return([idgen EXCEPT !.last_st = idgen.st, !.counter = 1])
    /\ UNCHANGED <<loader_vars, builder, id_text, store, dylib>>

InitIdGen ==
    /\ asset_cache = [s \in Shards |-> [k \in TypeKey |-> VacantAsset]]
    /\ path_cache = [s \in Shards |-> [pk \in PathKey |-> VacantPath]]
    /\ asset_lock = [s \in Shards |-> Free]
    /\ path_lock = [s \in Shards |-> Free]
    /\ decoded = [k \in TypeKey |-> NoCell]
    /\ load_task = [k \in TypeKey |-> NoLoadTask]
    /\ find_task = [pk \in PathKey |-> NoFindTask]
    /\ handle = [c \in Callers |-> NoHandle]
    /\ cpc = [c \in Callers |-> "idle"]
    /\ opt = [c \in Callers |-> NoVal]
    /\ result = [c \in Callers |-> NoResult]
    /\ nreg = [c \in Callers |-> 0]
    /\ woke = EmptyBag
    /\ counters = [load |-> [s \in Sources |-> [k \in TypeKey |-> 0]],
                   find |-> [s \in Sources |-> [pk \in PathKey |-> 0]],
                   decode |-> [k \in TypeKey |-> 0],
                   build |-> [k \in TypeKey |-> 0],
                   load_tasks |-> [k \in TypeKey |-> 0],
                   find_tasks |-> [pk \in PathKey |-> 0]]
    /\ panicked = {}
    /\ builder = BuiltLoader(NumShards, NumShards)
    /\ id_text = NoText
    /\ \E seed \in SeedSamples : idgen = IdGen_new(seed)
    /\ store = NoStore
    /\ dylib = NoDylib

NextIdGen ==
    \/ \E now \in ClockTimes : new_id_enter(now)
    \/ new_id_loop

SpecIdGen == InitIdGen /\ [][NextIdGen]_vars

\* The thread that runs new_id keeps running.
FairSpecIdGen == SpecIdGen /\ WF_vars(new_id_loop)

Returned == idgen.pc = "idle" /\ idgen.ret # NoRet

\* C36: two calls of new_id on one generator never return the same id,
\* whatever the clock shows: several calls within one second and a clock
\* that goes backwards included.
C36_IdsUnique == Returned => idgen.fresh

\* What the counter does achieve: calls that see the very same instant
\* (a clock that stands still or went back) get different counters.
SameInstantDistinct ==
    [][(idgen.pc = "loop" /\ idgen'.pc = "idle" /\ idgen'.last_st = idgen.last_st)
            => idgen'.ret.counter = idgen.counter + 1]_vars

\* C37: every id new_id produces is non-zero and is made of three fields
\* that do not overlap: the seconds since the starting epoch in the low 32
\* bits, a counter that fits in the next 10 bits, the seed in the top 22
\* bits.
C37_ThreeFields ==
    Returned =>
        /\ idgen.ret.id # ZeroId
        /\ idgen.ret.counter < 2 ^ 10
        /\ idgen.ret.id.low = idgen.ret.seconds
        /\ idgen.ret.id.mid = idgen.ret.counter
        /\ idgen.ret.id.top = idgen.seed % (2 ^ 22)

\* What holds: the id is never zero, since the counter is at least 1 and
\* at most MAX_COUNTER, and the fields are as described while the counter
\* is below MAX_COUNTER.
IdNonZero ==
    /\ Returned => (idgen.ret.id # ZeroId /\ idgen.ret.counter \in 1..MAX_COUNTER)
    /\ idgen.panicked = {}
FieldsBelowMax ==
    (Returned /\ idgen.ret.counter < MAX_COUNTER) =>
        /\ idgen.ret.id.low = idgen.ret.seconds
        /\ idgen.ret.id.mid = idgen.ret.counter
        /\ idgen.ret.id.top = idgen.seed % (2 ^ 22)

\* C38: every call of new_id returns an id: when the counter for the
\* current instant has reached MAX_COUNTER the call waits and then makes an
\* id, and the counter never exceeds MAX_COUNTER.
C38_AlwaysReturns ==
    /\ (idgen.pc = "loop") ~> (idgen.pc = "idle")
    /\ [](idgen.counter <= MAX_COUNTER)

\* What holds: the counter stays within 1..MAX_COUNTER, and a call that
\* finds it below MAX_COUNTER, or that sees a later instant than last_st,
\* returns at once.
CounterBounded == idgen.counter \in 1..MAX_COUNTER
ReturnsUnlessFull ==
    [][(idgen.pc = "loop"
            /\ ~(SameInstant(idgen.st, idgen.last_st) /\ idgen.counter >= MAX_COUNTER))
        => idgen'.pc = "idle"]_vars
\* A call that slept once sleeps again: neither st nor the state changed.
SleepsForEver ==
    (idgen.pc = "loop" /\ idgen.sleeps > 0) =>
        /\ SameInstant(idgen.st, idgen.last_st)
        /\ idgen.counter >= MAX_COUNTER

\* ------------------------------------------------------------------------
\* Store::store_url (src/store/src/store.rs).

\* Bounds: the assets (source, target) an import can be about, asset 1
\* being the one store_url is called for, and the items of the stack that
\* are kept: the top MaxStack items, the rest being forgotten.
NumStoreAssets == 2
MaxStack == 3

MAX_ITEM_ATTEMPTS == 1024

StoreAssets == 1..NumStoreAssets
RootAsset == 1

\* What the importer of an asset answers whenever it is invoked:
\*   ok            Ok(())
\*   err           Err(ImportError::Other)
\*   sources       Err(RequireSources), every time
\*   sources_once  Err(RequireSources) at the item's first attempt, then Ok
\*   dep           Err(RequireDependencies { on }), every time
\*   dep_once      Err(RequireDependencies { on }) as long as the dependency
\*                 callback finds no asset `on`, then Ok
ImporterBehaviours ==
    {[kind |-> k, on |-> 0] : k \in {"ok", "err", "sources", "sources_once"}}
        \cup {[kind |-> k, on |-> b] : k \in {"dep", "dep_once"}, b \in StoreAssets}

\* SourceMeta::get_asset and AssetMeta::needs_reimport: the asset is not in
\* the meta file, is there and up to date, or is there and out of date.
MetaStates == {"none", "fresh", "stale"}

StackItem(a) == [asset |-> a, attempt |-> 0]

\* stack.push: of a stack that has MaxStack items already the bottom one is
\* forgotten.
push(stack, item) ==
    IF Len(stack) < MaxStack THEN Append(stack, item) ELSE Append(Tail(stack), item)
pop(stack) == SubSeq(stack, 1, Len(stack) - 1)

\* The answer of importer.import for the top item, with its attempt counted.
import_result(s, item) ==
    LET b == s.behaviour[item.asset] IN
    CASE b.kind = "ok" -> "Ok"
      [] b.kind = "err" -> "Other"
      [] b.kind = "sources" -> "RequireSources"
      [] b.kind = "sources_once" -> IF item.attempt = 1 THEN "RequireSources" ELSE "Ok"
      [] b.kind = "dep" -> "RequireDependencies"
      [] OTHER -> IF s.meta[b.on] = "none" THEN "RequireDependencies" ELSE "Ok"

\* The call returns.
store_return(s, r) == [s EXCEPT !.pc = "returned", !.result = r]

\* stack.pop() after the top item is done: the call returns when the stack
\* is empty.  `beyond` marks a pop that would need a forgotten item.
store_pop(s) ==
    IF Len(s.stack) = 1
    THEN IF s.forgotten THEN [s EXCEPT !.pc = "beyond"]
         ELSE store_return([s EXCEPT !.stack = <<>>], "ok")
    ELSE [s EXCEPT !.stack = pop(@)]

\* One turn of the loop of store_url, every fallible step succeeding.
store_loop ==
    /\ store.pc = "run"
    /\ LET n == Len(store.stack)
           item == [store.stack[n] EXCEPT !.attempt = @ + 1]
           s == [store EXCEPT !.stack[n] = item]
           r == import_result(s, item)
       IN
        store' =
            IF s.meta[item.asset] = "fresh" THEN store_pop(s)
            ELSE LET t == [s EXCEPT !.invoked = TRUE] IN
                 CASE r = "Ok" -> store_pop([t EXCEPT !.meta[item.asset] = "fresh"])
                   [] r = "Other" -> store_return(t, "err_import")
                   [] r = "RequireSources" ->
                        IF item.attempt >= MAX_ITEM_ATTEMPTS
                        THEN store_return(t, "err_attempts")
                        ELSE t
                   [] OTHER ->
                        IF item.attempt >= MAX_ITEM_ATTEMPTS
                        THEN store_return(t, "err_attempts")
                        ELSE [t EXCEPT
                                !.stack = push(@, StackItem(s.behaviour[item.asset].on)),
                                !.forgotten = @ \/ Len(t.stack) = MaxStack]
    /\ UNCHANGED <<loader_vars, builder, id_text, idgen, dylib>>

\* One of the steps of the loop that end the call with `?` fails: the meta
\* file cannot be read, no importer is found, a source cannot be fetched,
\* the new meta cannot be written.
store_fail ==
    /\ store.pc = "run"
    /\ store' = store_return(store, "err_io")
    /\ UNCHANGED <<loader_vars, builder, id_text, idgen, dylib>>

InitStore ==
    /\ asset_cache = [s \in Shards |-> [k \in TypeKey |-> VacantAsset]]
    /\ path_cache = [s \in Shards |-> [pk \in PathKey |-> VacantPath]]
    /\ asset_lock = [s \in Shards |-> Free]
    /\ path_lock = [s \in Shards |-> Free]
    /\ decoded = [k \in TypeKey |-> NoCell]
    /\ load_task = [k \in TypeKey |-> NoLoadTask]
    /\ find_task = [pk \in PathKey |-> NoFindTask]
    /\ handle = [c \in Callers |-> NoHandle]
    /\ cpc = [c \in Callers |-> "idle"]
    /\ opt = [c \in Callers |-> NoVal]
    /\ result = [c \in Callers |-> NoResult]
    /\ nreg = [c \in Callers |-> 0]
    /\ woke = EmptyBag
    /\ counters = [load |-> [s \in Sources |-> [k \in TypeKey |-> 0]],
                   find |-> [s \in Sources |-> [pk \in PathKey |-> 0]],
                   decode |-> [k \in TypeKey |-> 0],
                   build |-> [k \in TypeKey |-> 0],
                   load_tasks |-> [k \in TypeKey |-> 0],
                   find_tasks |-> [pk \in PathKey |-> 0]]
    /\ panicked = {}
    /\ builder = BuiltLoader(NumShards, NumShards)
    /\ id_text = NoText
    /\ idgen = NoIdGen
    /\ \E beh \in [StoreAssets -> ImporterBehaviours], meta \in [StoreAssets -> MetaStates] :
        store = [pc |-> "run", stack |-> <<StackItem(RootAsset)>>, forgotten |-> FALSE,
                 meta |-> meta, behaviour |-> beh, invoked |-> FALSE, result |-> "none"]
    /\ dylib = NoDylib

NextStore == store_loop \/ store_fail

SpecStore == InitStore /\ [][NextStore]_vars

\* The future of store_url is polled to its end; nothing makes a fallible
\* step fail.
FairSpecStore == SpecStore /\ WF_vars(store_loop)

\* C39: store_url always returns, with an id or an error, after finitely
\* many importer invocations: the attempt counter limits every stack item
\* to 1024 attempts, also when importers keep asking for sources or
\* dependencies and when dependencies require each other.
C39_StoreUrlReturns ==
    /\ (store.pc = "run") ~> (store.pc = "returned")
    /\ [](\A i \in DOMAIN store.stack : store.stack[i].attempt <= MAX_ITEM_ATTEMPTS)

\* What holds.  No item is attempted more than MAX_ITEM_ATTEMPTS times.
AttemptsLimited ==
    /\ store.pc \in {"run", "returned"}
    /\ \A i \in DOMAIN store.stack : store.stack[i].attempt <= MAX_ITEM_ATTEMPTS
\* The call returns when no asset is reached again by following what the
\* importers require.
RECURSIVE Requires(_, _, _)
Requires(a, b, n) ==
    LET beh == store.behaviour[a] IN
    /\ beh.kind \in {"dep", "dep_once"}
    /\ n > 0
    /\ beh.on = b \/ Requires(beh.on, b, n - 1)
Acyclic == \A a \in StoreAssets : ~Requires(a, a, NumStoreAssets)
ReturnsIfAcyclic == (store.pc = "run" /\ Acyclic) ~> (store.pc = "returned")
\* With dependencies that require each other the same asset is on the
\* stack again and again, each time as a new item.
RepeatedOnStack ==
    \E i, j \in DOMAIN store.stack : i < j /\ store.stack[i].asset = store.stack[j].asset
GrowsOnlyIfCyclic == (RepeatedOnStack \/ store.forgotten) => ~Acyclic

\* ------------------------------------------------------------------------
\* DylibImporter::import (src/import/src/loading.rs) and the importer side
\* of the FFI, importer_import_ffi (src/import/src/ffi.rs).

\* Bound: the lengths tried for what the importer has to write into the
\* result buffer.
NumLenSamples == 8

RESULT_BUF_LEN_START == 1024
ANY_BUF_LEN_LIMIT == 65536
SUCCESS == 0
REQUIRE_DEPENDENCIES == 1
REQUIRE_SOURCES == 2
BUFFER_IS_TOO_SMALL == -3
OTHER_ERROR == -6

LenSeq == <<0, 16, 1024, 1025, 2048, 65535, 65536, 65537, 4096>>
LenSamples == {LenSeq[i] : i \in 1..NumLenSamples}

\* What Importer::import returned inside the library.
ImportOutcomes == {"Ok", "RequireSources", "RequireDependencies", "Other"}

\* importer_import_ffi: the importer's result is written into the result
\* buffer if it fits, and otherwise the required length is stored into
\* *result_len.  `real` is the importer's result, `len` the length of its
\* encoding; the answer is the return code and the new *result_len.
importer_import_ffi(real, len, result_len) ==
    CASE real = "Ok" -> [code |-> SUCCESS, result_len |-> result_len]
      [] result_len < len -> [code |-> BUFFER_IS_TOO_SMALL, result_len |-> len]
      [] real = "RequireSources" -> [code |-> REQUIRE_SOURCES, result_len |-> len]
      [] real = "RequireDependencies" -> [code |-> REQUIRE_DEPENDENCIES, result_len |-> len]
      [] OTHER -> [code |-> OTHER_ERROR, result_len |-> len]

\* DylibImporter::import up to the loop.
import_start(real, len) ==
    [pc |-> "call", real |-> real, len |-> len,
     result_buf |-> RESULT_BUF_LEN_START, result_len |-> RESULT_BUF_LEN_START,
     result |-> SUCCESS, calls |-> 0, too_small |-> FALSE, returned |-> "none"]

\* (self.import)(.., result_buf.as_mut_ptr(), &mut result_len).
import_call ==
    /\ dylib.pc = "call"
    /\ LET r == importer_import_ffi(dylib.real, dylib.len, dylib.result_len) IN
        dylib' = [dylib EXCEPT !.pc = "check", !.result = r.code,
                               !.result_len = r.result_len, !.calls = @ + 1,
                               !.too_small = @ \/ r.code = BUFFER_IS_TOO_SMALL]
    /\ UNCHANGED <<loader_vars, builder, id_text, idgen, store>>

\* The rest of the loop body: a result that does not fit the limit is an
\* error; otherwise the buffer is resized; then `break result`.
import_check ==
    /\ dylib.pc = "check"
    /\ dylib' =
        IF dylib.result = BUFFER_IS_TOO_SMALL
        THEN IF dylib.result_len > ANY_BUF_LEN_LIMIT
             THEN [dylib EXCEPT !.pc = "done", !.returned = "Other: does not fit into limit"]
             ELSE [dylib EXCEPT !.pc = "match", !.result_buf = dylib.result_len]
        ELSE [dylib EXCEPT !.pc = "match"]
    /\ UNCHANGED <<loader_vars, builder, id_text, idgen, store>>

\* `match result`.
import_match ==
    /\ dylib.pc = "match"
    /\ dylib' = [dylib EXCEPT
            !.pc = "done",
            !.returned =
                CASE dylib.result = SUCCESS -> "Ok"
                  [] dylib.result = REQUIRE_SOURCES -> "RequireSources"
                  [] dylib.result = REQUIRE_DEPENDENCIES -> "RequireDependencies"
                  [] dylib.result = OTHER_ERROR -> "Other"
                  [] OTHER -> "Other: unexpected return code"]
    /\ UNCHANGED <<loader_vars, builder, id_text, idgen, store>>

InitDylib ==
    /\ asset_cache = [s \in Shards |-> [k \in TypeKey |-> VacantAsset]]
    /\ path_cache = [s \in Shards |-> [pk \in PathKey |-> VacantPath]]
    /\ asset_lock = [s \in Shards |-> Free]
    /\ path_lock = [s \in Shards |-> Free]
    /\ decoded = [k \in TypeKey |-> NoCell]
    /\ load_task = [k \in TypeKey |-> NoLoadTask]
    /\ find_task = [pk \in PathKey |-> NoFindTask]
    /\ handle = [c \in Callers |-> NoHandle]
    /\ cpc = [c \in Callers |-> "idle"]
    /\ opt = [c \in Callers |-> NoVal]
    /\ result = [c \in Callers |-> NoResult]
    /\ nreg = [c \in Callers |-> 0]
    /\ woke = EmptyBag
    /\ counters = [load |-> [s \in Sources |-> [k \in TypeKey |-> 0]],
                   find |-> [s \in Sources |-> [pk \in PathKey |-> 0]],
                   decode |-> [k \in TypeKey |-> 0],
                   build |-> [k \in TypeKey |-> 0],
                   load_tasks |-> [k \in TypeKey |-> 0],
                   find_tasks |-> [pk \in PathKey |-> 0]]
    /\ panicked = {}
    /\ builder = BuiltLoader(NumShards, NumShards)
    /\ id_text = NoText
    /\ idgen = NoIdGen
    /\ store = NoStore
    /\ \E real \in ImportOutcomes, len \in LenSamples : dylib = import_start(real, len)

NextDylib == import_call \/ import_check \/ import_match

SpecDylib == InitDylib /\ [][NextDylib]_vars

\* C40: when the importer's `import` returns BUFFER_IS_TOO_SMALL with a
\* required length within the 65536-byte limit, DylibImporter::import
\* enlarges the result buffer, calls the importer again and finally
\* returns the importer's real outcome, not an unexpected-return-code
\* error.
C40_RetriesWithLargerBuffer ==
    (dylib.pc = "done" /\ dylib.too_small /\ dylib.len <= ANY_BUF_LEN_LIMIT) =>
        /\ dylib.result_buf >= dylib.len
        /\ dylib.calls >= 2
        /\ dylib.returned = dylib.real

\* What holds: the importer is called once; a result that fits the first
\* buffer is returned as it is; one over the limit is an error; for one in
\* between the buffer is enlarged to the required length and the call ends
\* with the unexpected-return-code error.
CalledOnce == dylib.pc = "done" => dylib.calls = 1
FitsFirstBuffer ==
    (dylib.pc = "done" /\ ~dylib.too_small) => dylib.returned = dylib.real
TooSmallOutcome ==
    (dylib.pc = "done" /\ dylib.too_small) =>
        IF dylib.len > ANY_BUF_LEN_LIMIT
        THEN dylib.returned = "Other: does not fit into limit"
        ELSE /\ dylib.result_buf = dylib.len
             /\ dylib.returned = "Other: unexpected return code"
====
